---- MODULE Spec2Model ----
(***************************************************************************)
(* Model of the llm-graph-builder backend: the ingestion pipeline          *)
(* (processing_source and the job-control operations of main.py), the      *)
(* deadlock-retry wrappers of shared/common_fn.py and the schema           *)
(* validation of llm.py.                                                   *)
(*                                                                         *)
(* One document (one file name) is modelled.  Every call to the graph      *)
(* database is one atomic step; invocations of processing_source run       *)
(* concurrently with one another and with the job-control operations,      *)
(* as the database is the only resource they share.                        *)
(***************************************************************************)
EXTENDS Integers, Sequences, FiniteSets, TLC

(***************************************************************************)
(* Bounds of the model.                                                    *)
(***************************************************************************)
\* largest number of chunks the file of the document is split into
MaxChunks == 3
\* value of the environment variable UPDATE_GRAPH_CHUNKS_PROCESSED
BatchSize == 2

\* the concurrent invocations of processing_source
Procs == {"p1", "p2"}

(***************************************************************************)
(* Program constants.                                                      *)
(***************************************************************************)
START_FROM_BEGINNING == "start_from_beginning"
START_FROM_LAST_PROCESSED_POSITION == "start_from_last_processed_position"
DELETE_ENTITIES_AND_START_FROM_BEGINNING == "delete_entities_and_start_from_beginning"
\* retry_condition=None
NoRetry == "None"
RetryModes ==
    {START_FROM_BEGINNING, START_FROM_LAST_PROCESSED_POSITION,
     DELETE_ENTITIES_AND_START_FROM_BEGINNING}

\* the ways a call ends
LLMGraphBuilderException == "LLMGraphBuilderException"
IndexError == "IndexError"
RuntimeError == "RuntimeError"
TransientError == "TransientError"
OtherError == "Exception"
Errors == {LLMGraphBuilderException, IndexError, RuntimeError, TransientError, OtherError}

VARIABLES
    \* ---- the graph database and the staging area ----
    doc,          \* the SourceDocument record of the file
    chunkCount,   \* number of persisted Chunk nodes of the file (positions 1..chunkCount)
    embedded,     \* positions of the chunks that carry an embedding
    linked,       \* positions of the chunks whose entities are persisted and linked
                  \* to them by a HAS_ENTITY edge
    staged,       \* the staged upload artifact exists
    \* ---- the file ----
    fileChunks,   \* number of chunks the file's pages split into
    fileLocal,    \* the document was uploaded from local storage
    \* ---- one invocation of processing_source per process ----
    pc,           \* position of the invocation in the code
    retry,        \* retry_condition
    pending,      \* chunkId_chunkDoc_list, as the positions of its chunks
    total,        \* total_chunks
    posRes,       \* position returned by the last-processed-position query
                  \* (0: no row, -1: not run)
    woeRes,       \* position returned by the without-entity query (0: no row, -1: not run)
    source_node,  \* the record _create_processing_source_node builds
    idx,          \* loop variable i of the batch loop
    nodes,        \* node_count
    rels,         \* rel_count
    job,          \* job_status
    ret,          \* how the invocation ended
    done          \* batches completed by the invocation, in order

dbVars == <<doc, chunkCount, embedded, linked, staged>>
fileVars == <<fileChunks, fileLocal>>
procVars == <<pc, retry, pending, total, posRes, woeRes, source_node, idx, nodes, rels, job, ret, done>>

VARIABLES
    \* ---- one call of save_graphDocuments_in_neo4j or execute_graph_query ----
    rPc,          \* position of the call: idle, loop, done
    rFn,          \* the function called
    rMax,         \* max_retries
    rDelay,       \* delay, in seconds
    retries,      \* retries
    rTrace,       \* outcome of each attempt made, in order
    slept,        \* seconds spent in time.sleep
    rRet          \* how the call ended

retryVars == <<rPc, rFn, rMax, rDelay, retries, rTrace, slept, rRet>>

VARIABLES
    \* ---- one call of get_graph_from_llm ----
    gPc,          \* position of the call: start, extract, done
    gModelOk,     \* LLM_MODEL_CONFIG_<model> is set and well formed
    gNodesIn,     \* allowedNodes, as its comma-separated fields
    gRelIn,       \* allowedRelationship, as its comma-separated fields
    gNodes,       \* allowed_nodes
    gRels,        \* allowed_relationships
    gExtract,     \* number of calls of get_graph_document_list
    gCause,       \* the error raised inside the try block
    gRet          \* how the call ended

llmVars == <<gPc, gModelOk, gNodesIn, gRelIn, gNodes, gRels, gExtract, gCause, gRet>>

VARIABLES
    \* ---- one call of a function of its arguments alone ----
    fnPc,         \* position of the call: idle, call, done, again
    fnName,       \* the function called
    fnArgs,       \* its arguments
    fnRet         \* what it returned

fnVars == <<fnPc, fnName, fnArgs, fnRet>>

\* what no step of the pipeline changes
pipelineFrame == <<fileVars, retryVars, llmVars, fnVars>>
pipelineVars == <<dbVars, fileVars, procVars>>
vars == <<dbVars, fileVars, procVars, retryVars, llmVars, fnVars>>

(***************************************************************************)
(* Helpers.                                                                *)
(***************************************************************************)
Min(a, b) == IF a < b THEN a ELSE b

\* Python's list[start:] for a list and an integer start
PySliceFrom(s, start) ==
    LET n == Len(s)
        b == IF start < 0 THEN (IF start + n < 0 THEN 0 ELSE start + n)
             ELSE Min(start, n)
    IN  SubSeq(s, b + 1, n)

\* Python's list[lo:hi] for 0 <= lo <= hi
PySlice(s, lo, hi) == SubSeq(s, lo + 1, Min(hi, Len(s)))

\* the set of elements of a sequence
Range(s) == {s[k] : k \in 1..Len(s)}

\* the chunk list of n chunks, in position order
ChunkList(n) == [k \in 1..n |-> k]

(***************************************************************************)
(* The persistence layer (graphDBdataAccess), the chunking service and the *)
(* query constants.                                                        *)
(***************************************************************************)
\* no SourceDocument record
NoDoc ==
    [exists |-> FALSE, status |-> "None", is_cancelled |-> FALSE,
     total_chunks |-> 0, processed_chunk |-> 0,
     node_count |-> 0, relationship_count |-> 0, retry_condition |-> NoRetry]

\* create_source_node: a new record, status New, counters zero
create_source_node ==
    [exists |-> TRUE, status |-> "New", is_cancelled |-> FALSE,
     total_chunks |-> 0, processed_chunk |-> 0,
     node_count |-> 0, relationship_count |-> 0, retry_condition |-> NoRetry]

\* update_source_node: writes the fields that are set on the partial record
\* `upd` (a function from field names to values) and keeps the others
update_source_node(d, upd) ==
    [f \in DOMAIN d |-> IF f \in DOMAIN upd THEN upd[f] ELSE d[f]]

\* update_node_relationship_count: recomputes the counters of the document
\* from the graph elements connected to its chunks
update_node_relationship_count(d, lk) ==
    [d EXCEPT !.node_count = Cardinality(lk), !.relationship_count = Cardinality(lk)]

\* get_current_status_document_node: the rows for the file name
get_current_status_document_node(d) ==
    IF d.exists
    THEN << [Status |-> d.status, is_cancelled |-> d.is_cancelled,
             processed_chunk |-> d.processed_chunk,
             nodeCount |-> d.node_count, relationshipCount |-> d.relationship_count] >>
    ELSE << >>

\* sourceNode(): no field of the partial record is set
NoSourceNode == [status |-> "None", total_chunks |-> 0, processed_chunk |-> 0]

(***************************************************************************)
(* Initial state: an empty database, a file of 1..MaxChunks chunks.  A     *)
(* file of that name may be in the staging area before any record of it    *)
(* exists, whether or not the document is processed as a local upload.     *)
(***************************************************************************)
InitDb ==
    /\ doc = NoDoc
    /\ chunkCount = 0
    /\ embedded = {}
    /\ linked = {}
    /\ staged \in BOOLEAN

InitFile ==
    /\ fileChunks \in 1..MaxChunks
    /\ fileLocal \in BOOLEAN

InitProcs ==
    /\ pc = [p \in Procs |-> "idle"]
    /\ retry = [p \in Procs |-> NoRetry]
    /\ pending = [p \in Procs |-> << >>]
    /\ total = [p \in Procs |-> 0]
    /\ posRes = [p \in Procs |-> -1]
    /\ woeRes = [p \in Procs |-> -1]
    /\ source_node = [p \in Procs |-> NoSourceNode]
    /\ idx = [p \in Procs |-> 0]
    /\ nodes = [p \in Procs |-> 0]
    /\ rels = [p \in Procs |-> 0]
    /\ job = [p \in Procs |-> "None"]
    /\ ret = [p \in Procs |-> "None"]
    /\ done = [p \in Procs |-> << >>]

InitPipeline == InitFile /\ InitDb /\ InitProcs

(***************************************************************************)
(* Registration of the document (upload_file's last part, or one of the    *)
(* create_source_node_graph_* operations).                                 *)
(***************************************************************************)
RegisterDocument ==
    /\ ~doc.exists
    /\ doc' = create_source_node
    /\ staged' = (staged \/ fileLocal)
    /\ UNCHANGED <<chunkCount, embedded, linked, pipelineFrame, procVars>>

(***************************************************************************)
(* processing_source, one action per call to the database.                 *)
(***************************************************************************)
\* the invocation ends: an error is raised, or a result is returned
Ends(p, how) ==
    /\ pc' = [pc EXCEPT ![p] = "done"]
    /\ ret' = [ret EXCEPT ![p] = how]

\* a caller invokes processing_source; _initialize_processing opens the
\* connection and makes sure the vector index exists
Invoke(p, rc) ==
    /\ pc[p] = "idle"
    /\ pc' = [pc EXCEPT ![p] = "chunks"]
    /\ retry' = [retry EXCEPT ![p] = rc]
    /\ UNCHANGED <<dbVars, pipelineFrame, pending, total, posRes, woeRes, source_node, idx, nodes,
                   rels, job, ret, done>>

\* get_chunkId_chunkDoc_list without retry_condition: the pages are split and
\* the chunks persisted
GetChunksFresh(p) ==
    /\ pc[p] = "chunks"
    /\ retry[p] = NoRetry
    /\ chunkCount' = fileChunks
    /\ pending' = [pending EXCEPT ![p] = ChunkList(fileChunks)]
    /\ total' = [total EXCEPT ![p] = fileChunks]
    /\ pc' = [pc EXCEPT ![p] = "status"]
    /\ UNCHANGED <<doc, embedded, linked, staged, pipelineFrame, retry, posRes,
                   woeRes, source_node, idx, nodes, rels, job, ret, done>>

\* the resume branch slicing from the position itself: one chunk too late
ResumeSelection_OffByOne(list, position, woe) ==
    IF position # 0 /\ position < Len(list)
    THEN [err |-> "None", list |-> PySliceFrom(list, position)]
    ELSE IF position # 0 /\ position = Len(list)
    THEN IF woe = 0
         THEN [err |-> IndexError, list |-> << >>]
         ELSE [err |-> "None", list |-> PySliceFrom(list, woe)]
    ELSE [err |-> LLMGraphBuilderException, list |-> << >>]

\* the chunks the resume branch of get_chunkId_chunkDoc_list selects: a list,
\* or the error it raises.  position, woe: the rows of the two queries
\* (0: no row)
ResumeSelection(list, position, woe) ==
    IF position # 0 /\ position < Len(list)
    THEN [err |-> "None", list |-> PySliceFrom(list, position - 1)]
    ELSE IF position # 0 /\ position = Len(list)
    THEN IF woe = 0
         THEN [err |-> IndexError, list |-> << >>]
         ELSE [err |-> "None", list |-> PySliceFrom(list, woe - 1)]
    ELSE [err |-> LLMGraphBuilderException, list |-> << >>]

\* get_chunkId_chunkDoc_list with a retry_condition: the persisted chunks are
\* read back
GetChunksRetry(p) ==
    /\ pc[p] = "chunks"
    /\ retry[p] # NoRetry
    /\ UNCHANGED <<dbVars, pipelineFrame, retry, source_node, idx, nodes, rels, job, done>>
    /\ IF chunkCount = 0
       THEN \* QUERY_TO_GET_CHUNKS returns no row, or one row without text
            /\ \E rows \in {"none", "notext"} :
                 Ends(p, IF rows = "none" THEN IndexError ELSE LLMGraphBuilderException)
            /\ UNCHANGED <<pending, total, posRes, woeRes>>
       ELSE LET list == ChunkList(chunkCount) IN
            IF retry[p] = START_FROM_LAST_PROCESSED_POSITION
            THEN \E position \in 0..chunkCount :
                 \E woe \in (IF position = chunkCount THEN 0..chunkCount ELSE {-1}) :
                    LET sel == ResumeSelection(list, position, woe) IN
                    /\ posRes' = [posRes EXCEPT ![p] = position]
                    /\ woeRes' = [woeRes EXCEPT ![p] = woe]
                    /\ IF sel.err # "None"
                       THEN /\ Ends(p, sel.err)
                            /\ UNCHANGED <<pending, total>>
                       ELSE /\ pending' = [pending EXCEPT ![p] = sel.list]
                            /\ total' = [total EXCEPT ![p] = Len(list)]
                            /\ pc' = [pc EXCEPT ![p] = "status"]
                            /\ UNCHANGED ret
            ELSE /\ pending' = [pending EXCEPT ![p] = list]
                 /\ total' = [total EXCEPT ![p] = Len(list)]
                 /\ pc' = [pc EXCEPT ![p] = "status"]
                 /\ UNCHANGED <<posRes, woeRes, ret>>

\* _create_processing_source_node counting every chunk as processed at the start
_create_processing_source_node_AllProcessed(total_chunks, retry_condition, result) ==
    LET resume == retry_condition = START_FROM_LAST_PROCESSED_POSITION
        node_count == IF resume THEN result[1].nodeCount ELSE 0
        rel_count == IF resume THEN result[1].relationshipCount ELSE 0
        select_chunks_with_retry == IF resume THEN result[1].processed_chunk ELSE 0
    IN  [source_node |-> [status |-> "Processing", total_chunks |-> total_chunks,
                          processed_chunk |-> total_chunks + select_chunks_with_retry],
         node_count |-> node_count, rel_count |-> rel_count,
         select_chunks_with_retry |-> select_chunks_with_retry]

\* _create_processing_source_node: the record written before the batch loop
\* and the starting counts
_create_processing_source_node(total_chunks, retry_condition, result) ==
    LET resume == retry_condition = START_FROM_LAST_PROCESSED_POSITION
        node_count == IF resume THEN result[1].nodeCount ELSE 0
        rel_count == IF resume THEN result[1].relationshipCount ELSE 0
        select_chunks_with_retry == IF resume THEN result[1].processed_chunk ELSE 0
    IN  [source_node |-> [status |-> "Processing", total_chunks |-> total_chunks,
                          processed_chunk |-> 0 + select_chunks_with_retry],
         node_count |-> node_count, rel_count |-> rel_count,
         select_chunks_with_retry |-> select_chunks_with_retry]

\* the guard against a second invocation: a mistyped status never matches
AlreadyProcessing_Mistyped(result) == result[1].Status = "processing"

\* the guard against a second invocation for the same document
AlreadyProcessing(result) == result[1].Status = "Processing"

\* the error of an empty status result, were result[0] read without the
\* length check
UnableToGetStatus_IndexError == IndexError

\* the error raised on an empty status result: 'Unable to get the status of
\* document node.'
UnableToGetStatus == LLMGraphBuilderException

\* _get_document_status and the two checks on its result
GetStatus(p) ==
    /\ pc[p] = "status"
    /\ LET result == get_current_status_document_node(doc) IN
       IF Len(result) = 0
       THEN /\ Ends(p, UnableToGetStatus)
            /\ UNCHANGED <<source_node, nodes, rels>>
       ELSE IF AlreadyProcessing(result)
       THEN /\ Ends(p, "empty")
            /\ UNCHANGED <<source_node, nodes, rels>>
       ELSE LET c == _create_processing_source_node(total[p], retry[p], result) IN
            /\ source_node' = [source_node EXCEPT ![p] = c.source_node]
            /\ nodes' = [nodes EXCEPT ![p] = c.node_count]
            /\ rels' = [rels EXCEPT ![p] = c.rel_count]
            /\ pc' = [pc EXCEPT ![p] = "update"]
            /\ UNCHANGED ret
    /\ UNCHANGED <<dbVars, pipelineFrame, retry, pending, total, posRes, woeRes, idx, job, done>>

\* _update_source_node_and_get_chunks, first call: update_source_node
UpdateSourceNode(p) ==
    /\ pc[p] = "update"
    /\ doc' = update_source_node(doc, source_node[p])
    /\ pc' = [pc EXCEPT ![p] = "refresh"]
    /\ UNCHANGED <<chunkCount, embedded, linked, staged, pipelineFrame, retry,
                   pending, total, posRes, woeRes, source_node, idx, nodes, rels, job, ret, done>>

\* where the batch loop goes at offset i of a list of n chunks
LoopHead(i, n) == IF i < n THEN "check" ELSE "final"

\* _update_source_node_and_get_chunks, second call:
\* update_node_relationship_count; then the batch loop is entered
RefreshCounts(p) ==
    /\ pc[p] = "refresh"
    /\ doc' = update_node_relationship_count(doc, linked)
    /\ job' = [job EXCEPT ![p] = "Completed"]
    /\ idx' = [idx EXCEPT ![p] = 0]
    /\ pc' = [pc EXCEPT ![p] = LoopHead(0, Len(pending[p]))]
    /\ UNCHANGED <<chunkCount, embedded, linked, staged, pipelineFrame, retry,
                   pending, total, posRes, woeRes, source_node, nodes, rels, ret, done>>

\* the cancellation check, were the flag taken from the status instead
IsCancelled_FromStatus(result) == result[1].Status = "Cancelled"

\* bool(is_cancelled_status) of the row just read
IsCancelled(result) == result[1].is_cancelled

\* the cancellation check at the head of a batch
CheckCancelled(p) ==
    /\ pc[p] = "check"
    /\ LET result == get_current_status_document_node(doc) IN
       IF IsCancelled(result)
       THEN /\ job' = [job EXCEPT ![p] = "Cancelled"]
            /\ pc' = [pc EXCEPT ![p] = "final"]
       ELSE /\ pc' = [pc EXCEPT ![p] = "batch"]
            /\ UNCHANGED job
    /\ UNCHANGED <<dbVars, pipelineFrame, retry, pending, total, posRes, woeRes, source_node, idx,
                   nodes, rels, ret, done>>

\* selected_chunks, were the slice to run one chunk past the batch
SelectedChunks_Overlap(list, i) == PySlice(list, i, Min(i + BatchSize + 1, Len(list)))

\* selected_chunks of the batch at offset i
SelectedChunks(list, i) == PySlice(list, i, Min(i + BatchSize, Len(list)))

\* the steps of processing_chunks, in order, and the error a failing step raises
BatchSteps == <<"embed", "extract", "save", "link", "count">>
StepError(s) ==
    CASE s = "embed" -> OtherError
      [] s = "extract" -> LLMGraphBuilderException
      [] s = "save" -> RuntimeError
      [] s = "link" -> RuntimeError
      [] s = "count" -> OtherError

\* a step of the batch fails, were the loop to mark the document Failed
OnBatchFailure_MarkFailed(p, error) ==
    /\ Ends(p, error)
    /\ doc' = [doc EXCEPT !.status = "Failed"]

\* a step of the batch fails: nothing around the call of processing_chunks
\* catches the error, so processing_source ends with it there and then
OnBatchFailure(p, error) ==
    /\ Ends(p, error)
    /\ UNCHANGED doc

\* processing_chunks on the selected chunks; the steps before step number
\* `upto` have run (upto = 6: all of them)
ProcessingChunks(p, upto) ==
    /\ pc[p] = "batch"
    /\ LET selected == SelectedChunks(pending[p], idx[p])
           sel == Range(selected)
           emb == IF upto > 1 THEN embedded \cup sel ELSE embedded
           lnk == IF upto > 4 THEN linked \cup sel ELSE linked
       IN  /\ embedded' = emb
           /\ linked' = lnk
           /\ IF upto > Len(BatchSteps)
              THEN LET d == update_node_relationship_count(doc, lnk)
                       i == idx[p] + BatchSize
                   IN  /\ doc' = d
                       /\ nodes' = [nodes EXCEPT ![p] = d.node_count]
                       /\ rels' = [rels EXCEPT ![p] = d.relationship_count]
                       /\ done' = [done EXCEPT ![p] = Append(@, selected)]
                       /\ idx' = [idx EXCEPT ![p] = i]
                       /\ pc' = [pc EXCEPT ![p] = LoopHead(i, Len(pending[p]))]
                       /\ UNCHANGED ret
              ELSE /\ OnBatchFailure(p, StepError(BatchSteps[upto]))
                   /\ UNCHANGED <<nodes, rels, done, idx>>
    /\ UNCHANGED <<chunkCount, staged, pipelineFrame, retry, pending, total, posRes, woeRes,
                   source_node, job>>

\* the final status, were it written as Completed whatever the loop found
FinalStatus_AlwaysCompleted(job_status) == "Completed"

\* final_source_node.status = job_status
FinalStatus(job_status) == job_status

\* the final update_source_node: status, processing time and counts
FinalUpdate(p) ==
    /\ pc[p] = "final"
    /\ doc' = update_source_node(doc,
                [status |-> FinalStatus(job[p]), node_count |-> nodes[p],
                 relationship_count |-> rels[p]])
    /\ pc' = [pc EXCEPT ![p] = "finalcount"]
    /\ UNCHANGED <<chunkCount, embedded, linked, staged, pipelineFrame, retry,
                   pending, total, posRes, woeRes, source_node, idx, nodes, rels, job, ret, done>>

\* the final update_node_relationship_count
FinalCount(p) ==
    /\ pc[p] = "finalcount"
    /\ doc' = update_node_relationship_count(doc, linked)
    /\ pc' = [pc EXCEPT ![p] = "cleanup"]
    /\ UNCHANGED <<chunkCount, embedded, linked, staged, pipelineFrame, retry,
                   pending, total, posRes, woeRes, source_node, idx, nodes, rels, job, ret, done>>

\* the clean-up, were the staged artifact deleted for every kind of source
DeletesStaged_Always(is_uploaded_from_local) == TRUE

\* `if is_uploaded_from_local:` guards the deletion of the staged artifact
DeletesStaged(is_uploaded_from_local) == is_uploaded_from_local

\* the staged artifact is deleted and the response returned
Cleanup(p) ==
    /\ pc[p] = "cleanup"
    /\ staged' = (IF DeletesStaged(fileLocal) THEN FALSE ELSE staged)
    /\ Ends(p, "response")
    /\ UNCHANGED <<doc, chunkCount, embedded, linked, pipelineFrame, retry,
                   pending, total, posRes, woeRes, source_node, idx, nodes, rels, job, done>>

\* the caller has the outcome; the process is free for another invocation
Return(p) ==
    /\ pc[p] = "done"
    /\ pc' = [pc EXCEPT ![p] = "idle"]
    /\ retry' = [retry EXCEPT ![p] = NoRetry]
    /\ pending' = [pending EXCEPT ![p] = << >>]
    /\ total' = [total EXCEPT ![p] = 0]
    /\ posRes' = [posRes EXCEPT ![p] = -1]
    /\ woeRes' = [woeRes EXCEPT ![p] = -1]
    /\ source_node' = [source_node EXCEPT ![p] = NoSourceNode]
    /\ idx' = [idx EXCEPT ![p] = 0]
    /\ nodes' = [nodes EXCEPT ![p] = 0]
    /\ rels' = [rels EXCEPT ![p] = 0]
    /\ job' = [job EXCEPT ![p] = "None"]
    /\ ret' = [ret EXCEPT ![p] = "None"]
    /\ done' = [done EXCEPT ![p] = << >>]
    /\ UNCHANGED <<dbVars, pipelineFrame>>

(***************************************************************************)
(* Job control.  Both operations are invoked for a document of the source  *)
(* list, that is, one whose record exists.                                 *)
(***************************************************************************)
\* manually_cancelled_job for the file
manually_cancelled_job ==
    /\ doc.exists
    /\ doc' = update_node_relationship_count(
                update_source_node(doc, [is_cancelled |-> TRUE, status |-> "Cancelled"]),
                linked)
    /\ staged' = FALSE
    /\ UNCHANGED <<chunkCount, embedded, linked, pipelineFrame, procVars>>

\* the record, were the counters never reset
RetryRecord_KeepCounts(retry_condition) ==
    [status |-> "Ready to Reprocess", retry_condition |-> retry_condition,
     is_cancelled |-> FALSE]

\* the record set_status_retry writes
RetryRecord(retry_condition) ==
    LET base == [status |-> "Ready to Reprocess", retry_condition |-> retry_condition,
                 is_cancelled |-> FALSE]
        reset == IF retry_condition \in {DELETE_ENTITIES_AND_START_FROM_BEGINNING,
                                         START_FROM_BEGINNING}
                 THEN [f \in DOMAIN base \cup {"processed_chunk"} |->
                          IF f = "processed_chunk" THEN 0 ELSE base[f]]
                 ELSE base
    IN  IF retry_condition = DELETE_ENTITIES_AND_START_FROM_BEGINNING
        THEN [f \in DOMAIN reset \cup {"node_count", "relationship_count"} |->
                 IF f \in {"node_count", "relationship_count"} THEN 0 ELSE reset[f]]
        ELSE reset

\* set_status_retry for the file
set_status_retry(retry_condition) ==
    /\ doc.exists
    /\ doc' = update_source_node(doc, RetryRecord(retry_condition))
    /\ IF retry_condition = DELETE_ENTITIES_AND_START_FROM_BEGINNING
       THEN \* QUERY_TO_DELETE_EXISTING_ENTITIES
            linked' = {}
       ELSE UNCHANGED linked
    /\ UNCHANGED <<chunkCount, embedded, staged, pipelineFrame, procVars>>

(***************************************************************************)
(* The specification of the pipeline.                                      *)
(***************************************************************************)
ProcStep(p) ==
    \/ \E rc \in RetryModes \cup {NoRetry} : Invoke(p, rc)
    \/ GetChunksFresh(p)
    \/ GetChunksRetry(p)
    \/ GetStatus(p)
    \/ UpdateSourceNode(p)
    \/ RefreshCounts(p)
    \/ CheckCancelled(p)
    \/ \E upto \in 1..(Len(BatchSteps) + 1) : ProcessingChunks(p, upto)
    \/ FinalUpdate(p)
    \/ FinalCount(p)
    \/ Cleanup(p)
    \/ Return(p)

TypeOK ==
    /\ doc.status \in {"None", "New", "Processing", "Completed", "Cancelled",
                       "Ready to Reprocess"}
    /\ doc.processed_chunk \in 0..MaxChunks
    /\ doc.total_chunks \in 0..MaxChunks
    /\ chunkCount \in 0..MaxChunks
    /\ linked \subseteq 1..MaxChunks
    /\ \A p \in Procs : idx[p] \in 0..(MaxChunks + BatchSize)

(***************************************************************************)
(* Properties of the pipeline.                                             *)
(***************************************************************************)
\* positions of an invocation that has written the status Processing and has
\* not yet returned
InRun == {"refresh", "check", "batch", "final", "finalcount", "cleanup"}

\* number of chunks in a sequence of batches
RECURSIVE SumLen(_)
SumLen(batches) ==
    IF batches = << >> THEN 0 ELSE Len(Head(batches)) + SumLen(Tail(batches))

\* the positions from..to, in order
Positions(from, to) == [k \in 1..(to - from + 1) |-> from + k - 1]

C2_AtMostOnePastGuard == Cardinality({p \in Procs : pc[p] \in InRun}) <= 1

C4_ProcessedChunkAdvances ==
    \A p \in Procs :
        pc[p] \in {"check", "batch", "final"} =>
            doc.processed_chunk = source_node[p].processed_chunk + SumLen(done[p])

\* C5: the stored processed_chunk never exceeds the stored total_chunks.
C5_ProcessedAtMostTotal == doc.processed_chunk <= doc.total_chunks

C5_Witness ==
    \E p \in Procs :
        /\ pc[p] \in InRun /\ retry[p] = START_FROM_LAST_PROCESSED_POSITION
        /\ Len(done[p]) >= 1
        /\ doc.total_chunks > 0

\* C6: a resume from the last processed position over N persisted chunks
\* returns total N and, when the position query gives p < N, the chunks at
\* positions p..N in order; when it gives p = N and the without-entity query
\* gives q, the chunks at positions q..N in order.
C6_ResumeSelectsFromPosition ==
    [][\A p \in Procs :
        (/\ pc[p] = "chunks" /\ pc'[p] # "chunks"
         /\ retry[p] = START_FROM_LAST_PROCESSED_POSITION /\ chunkCount > 0)
        => LET N == chunkCount
               position == posRes'[p]
               q == woeRes'[p]
           IN  /\ (position >= 1 /\ position < N)
                     => /\ pc'[p] = "status"
                        /\ total'[p] = N
                        /\ pending'[p] = Positions(position, N)
               /\ (position = N /\ q >= 1)
                     => /\ pc'[p] = "status"
                        /\ total'[p] = N
                        /\ pending'[p] = Positions(q, N)
      ]_vars

C6_Witness ==
    \E p \in Procs :
        /\ pc[p] = "status" /\ retry[p] = START_FROM_LAST_PROCESSED_POSITION
        /\ posRes[p] >= 2 /\ posRes[p] < total[p]
        /\ pending[p] = Positions(posRes[p], total[p])

\* C7: a resume that finds no eligible position (no row from the position
\* query, or the position equals the chunk count and no row from the
\* without-entity query) ends with LLMGraphBuilderException and hands no
\* chunk to the batch loop.
C7_NoPositionIsDomainError ==
    \A p \in Procs :
        (/\ pc[p] = "done" /\ retry[p] = START_FROM_LAST_PROCESSED_POSITION
         /\ (posRes[p] = 0 \/ (posRes[p] = chunkCount /\ woeRes[p] = 0)))
        => (ret[p] = LLMGraphBuilderException /\ pending[p] = << >> /\ done[p] = << >>)

TerminalStatuses == {"Completed", "Cancelled", "Failed"}

\* C18: every change of the stored status of an existing record follows the
\* state machine: Processing is entered from New or Ready to Reprocess only;
\* Completed, Cancelled and Failed from Processing only; Ready to Reprocess
\* from a terminal status only.
C18_StatusStateMachine ==
    [][(doc.exists /\ doc'.status # doc.status) =>
          /\ doc'.status = "Processing" => doc.status \in {"New", "Ready to Reprocess"}
          /\ doc'.status \in TerminalStatuses => doc.status = "Processing"
          /\ doc'.status = "Ready to Reprocess" => doc.status \in TerminalStatuses]_vars

\* C19: a step of set_status_retry leaves the status Ready to Reprocess, the
\* requested mode recorded and is_cancelled false; start_from_beginning
\* also leaves processed_chunk 0; delete_entities_and_start_from_beginning
\* also leaves processed_chunk, node_count and relationship_count 0 and
\* the entities of the file deleted; start_from_last_processed_position
\* changes none of processed_chunk, node_count, relationship_count and the
\* entities.
C19_RetryFrame ==
    [][\A rc \in RetryModes : set_status_retry(rc) =>
          /\ doc'.status = "Ready to Reprocess"
          /\ doc'.retry_condition = rc
          /\ doc'.is_cancelled = FALSE
          /\ rc = START_FROM_BEGINNING => doc'.processed_chunk = 0
          /\ rc = DELETE_ENTITIES_AND_START_FROM_BEGINNING =>
                /\ doc'.processed_chunk = 0
                /\ doc'.node_count = 0 /\ doc'.relationship_count = 0
                /\ linked' = {}
          /\ rc = START_FROM_LAST_PROCESSED_POSITION =>
                /\ doc'.processed_chunk = doc.processed_chunk
                /\ doc'.node_count = doc.node_count
                /\ doc'.relationship_count = doc.relationship_count
                /\ linked' = linked]_vars

\* a retry from the last position was requested after a run, and the
\* counters and the entities of the run are still there
C19_Witness ==
    /\ doc.status = "Ready to Reprocess"
    /\ doc.retry_condition = START_FROM_LAST_PROCESSED_POSITION
    /\ ~doc.is_cancelled
    /\ doc.node_count > 0 /\ linked # {}
    /\ pc["p1"] = "idle"

\* C23: a step of the batch loop that raises ends processing_source with the
\* error of that step: the document record keeps the status, duration and
\* counts it had, the staged artifact stays, the batches completed before
\* stay completed and nothing embedded or linked is removed; the invocation
\* takes no further step that writes.
BatchErrors == {StepError(BatchSteps[k]) : k \in 1..Len(BatchSteps)}

C23_BatchErrorPropagates ==
    [][\A p \in Procs :
        /\ (pc[p] = "batch" /\ pc'[p] = "done")
              => /\ ret'[p] \in BatchErrors
                 /\ doc' = doc
                 /\ staged' = staged
                 /\ chunkCount' = chunkCount
                 /\ done'[p] = done[p]
                 /\ embedded \subseteq embedded'
                 /\ linked \subseteq linked'
        /\ (pc[p] = "done" /\ ret[p] \in Errors /\ pc'[p] # pc[p])
              => (pc'[p] = "idle" /\ dbVars' = dbVars)
      ]_vars

C23_Witness ==
    \E p \in Procs :
        /\ pc[p] = "done" /\ ret[p] \in BatchErrors
        /\ Len(done[p]) >= 1 /\ idx[p] < Len(pending[p])
        /\ Range(done[p][1]) \subseteq linked
        /\ doc.status = "Processing"
        /\ fileLocal /\ staged

\* the chunks of a sequence of batches, in order
RECURSIVE Flatten(_)
Flatten(batches) ==
    IF batches = << >> THEN << >> ELSE Head(batches) \o Flatten(Tail(batches))

\* the k-th batch of BatchSize consecutive chunks of a list
NthBatch(list, k) ==
    SubSeq(list, (k - 1) * BatchSize + 1, Min(k * BatchSize, Len(list)))

\* C25: the batches an invocation has processed are the first batches of
\* BatchSize consecutive chunks of its pending list, in ascending order (the
\* last one possibly smaller); the batch under way is the next one; and when
\* the loop ends with no cancellation observed, the batches processed are
\* the whole pending list, each chunk in exactly one batch.
C25_ConsecutiveBatches ==
    \A p \in Procs :
        /\ \A k \in 1..Len(done[p]) :
              /\ done[p][k] = NthBatch(pending[p], k)
              /\ done[p][k] # << >>
        /\ pc[p] \in {"check", "batch"} => idx[p] = Len(done[p]) * BatchSize
        /\ (pc[p] \in {"final", "finalcount", "cleanup"} /\ job[p] = "Completed")
              => Flatten(done[p]) = pending[p]

C25_Witness ==
    \E p \in Procs :
        /\ pc[p] = "final" /\ job[p] = "Completed"
        /\ Len(done[p]) = 2
        /\ Len(done[p][1]) = BatchSize
        /\ Len(done[p][2]) < BatchSize

\* C29: when the status is read and no record of the document exists, the
\* invocation ends there with LLMGraphBuilderException: it writes nothing
\* to the document record, has processed no batch and leaves the staged
\* artifact; it takes no further step that writes.
C29_NoRecordFails ==
    [][\A p \in Procs :
        /\ (pc[p] = "status" /\ pc'[p] # "status" /\ ~doc.exists)
              => /\ pc'[p] = "done"
                 /\ ret'[p] = LLMGraphBuilderException
                 /\ done'[p] = << >>
                 /\ dbVars' = dbVars
        /\ (pc[p] = "done" /\ ret[p] = LLMGraphBuilderException /\ pc'[p] # pc[p])
              => (pc'[p] = "idle" /\ dbVars' = dbVars)
      ]_vars

C29_Witness ==
    \E p \in Procs :
        /\ pc[p] = "done" /\ ret[p] = LLMGraphBuilderException
        /\ ~doc.exists /\ chunkCount > 0 /\ pending[p] # << >>
        /\ fileLocal /\ staged

\* C30: a retry for a file with no persisted chunks ends in
\* get_chunkId_chunkDoc_list with LLMGraphBuilderException and with no
\* other error.
C30_RetryWithoutChunksIsDomainError ==
    [][\A p \in Procs :
        (pc[p] = "chunks" /\ retry[p] # NoRetry /\ chunkCount = 0 /\ pc'[p] # "chunks")
            => (pc'[p] = "done" /\ ret'[p] = LLMGraphBuilderException)
      ]_vars

\* C31: an invocation that returns its response for a document uploaded
\* from local storage leaves no staged artifact; no step of it before the
\* clean-up touches the staging area, and the clean-up comes after the
\* final status was written; for any other document no step of the
\* invocation touches the staging area.
C31_StagedDeletedAfterFinal ==
    [][\A p \in Procs :
            /\ (pc[p] # "done" /\ pc'[p] = "done" /\ ret'[p] = "response")
                  => (pc[p] = "cleanup" /\ (fileLocal => ~staged'))
            /\ (pc[p] # "cleanup" /\ pc'[p] = "cleanup") => pc[p] = "finalcount"
            /\ (pc[p] # "finalcount" /\ pc'[p] = "finalcount")
                  => /\ pc[p] = "final"
                     /\ doc'.status = job[p]
                     /\ job[p] \in {"Completed", "Cancelled"}
            /\ (pc'[p] # pc[p] /\ (pc[p] # "cleanup" \/ ~fileLocal))
                  => staged' = staged
      ]_vars

C31_Witness ==
    \E p \in Procs :
        /\ pc[p] = "done" /\ ret[p] = "response"
        /\ fileLocal /\ ~staged
        /\ doc.status = "Completed" /\ ~doc.is_cancelled

C31_WitnessOther ==
    \E p \in Procs :
        /\ pc[p] = "done" /\ ret[p] = "response"
        /\ ~fileLocal /\ staged
        /\ doc.status = "Completed"

\* C33: a run does not overwrite a stored status Cancelled with Completed:
\* once its final update is written, a document whose is_cancelled flag is
\* set does not have the status Completed.
C33_CancelledNotOverwritten ==
    /\ [][\A p \in Procs :
            (pc[p] = "final" /\ pc'[p] # "final" /\ doc.status = "Cancelled")
                => doc'.status = "Cancelled"
         ]_vars
    /\ [](\A p \in Procs :
            (pc[p] \in {"finalcount", "cleanup"} /\ doc.is_cancelled)
                => doc.status # "Completed")

\* C35: a failure inside the batch loop writes no status, and while the
\* stored status is Processing every invocation, with or without a retry
\* condition, ends with the empty result.
C35_FailedRunBlocksLater ==
    [][\A p \in Procs :
        /\ (pc[p] = "batch" /\ pc'[p] = "done") => doc'.status = doc.status
        /\ (pc[p] \in {"chunks", "status"} /\ pc'[p] = "done" /\ doc.status = "Processing")
              => ret'[p] = "empty"
      ]_vars

(***************************************************************************)
(* The deadlock-retry wrappers of shared/common_fn.py:                     *)
(* save_graphDocuments_in_neo4j and execute_graph_query.                   *)
(***************************************************************************)
DEFAULT_MAX_RETRIES == 3
DEFAULT_RETRY_DELAY == 1
DEFAULT_QUERY_RETRY_DELAY == 2

\* largest max_retries a caller passes
MaxRetriesArg == 4

RetryFns == {"save_graphDocuments_in_neo4j", "execute_graph_query"}

\* the default of the parameter `delay` of each function
DefaultDelay(fn) ==
    IF fn = "save_graphDocuments_in_neo4j" THEN DEFAULT_RETRY_DELAY
    ELSE DEFAULT_QUERY_RETRY_DELAY

\* what an attempt (graph.add_graph_documents, graph.query) does: it returns,
\* or raises an exception of some type whose text has or lacks
\* 'DeadlockDetected'
ExceptionTypes == {TransientError, "ClientError", "ServiceUnavailable"}
Outcomes ==
    {[ok |-> TRUE, type |-> "None", deadlockText |-> FALSE]} \cup
    [ok : {FALSE}, type : ExceptionTypes, deadlockText : BOOLEAN]

\* the handler without the test of the text: every TransientError is retried
IsDeadlock_AnyTransient(e) == e.type = TransientError

\* except TransientError as e: if "DeadlockDetected" in str(e)
IsDeadlock(e) == e.type = TransientError /\ e.deadlockText

\* the loop condition letting one more attempt through
RetryLoopContinues_OneMore(n, max_retries) == n <= max_retries

\* while retries < max_retries
RetryLoopContinues(n, max_retries) == n < max_retries

RetryIdle ==
    /\ rPc = "idle"
    /\ rFn = "None"
    /\ rMax = 0
    /\ rDelay = 0
    /\ retries = 0
    /\ rTrace = << >>
    /\ slept = 0
    /\ rRet = "None"

\* a call with the default delay and some max_retries; retries = 0
RetryCall(fn, max_retries) ==
    /\ rPc = "idle"
    /\ rPc' = "loop"
    /\ rFn' = fn
    /\ rMax' = max_retries
    /\ rDelay' = DefaultDelay(fn)
    /\ retries' = 0
    /\ rTrace' = << >>
    /\ slept' = 0
    /\ rRet' = "None"
    /\ UNCHANGED <<pipelineVars, llmVars, fnVars>>

\* one iteration of the while loop: an attempt and its handler
Attempt(e) ==
    /\ rPc = "loop"
    /\ RetryLoopContinues(retries, rMax)
    /\ rTrace' = Append(rTrace, e)
    /\ IF e.ok
       THEN /\ rRet' = "ok"
            /\ rPc' = "done"
            /\ UNCHANGED <<retries, slept>>
       ELSE IF IsDeadlock(e)
       THEN /\ retries' = retries + 1
            /\ slept' = slept + rDelay
            /\ UNCHANGED <<rPc, rRet>>
       ELSE /\ rRet' = e.type
            /\ rPc' = "done"
            /\ UNCHANGED <<retries, slept>>
    /\ UNCHANGED <<rFn, rMax, rDelay, pipelineVars, llmVars, fnVars>>

\* the loop is left without a return: RuntimeError
RetriesExhausted ==
    /\ rPc = "loop"
    /\ ~RetryLoopContinues(retries, rMax)
    /\ rRet' = RuntimeError
    /\ rPc' = "done"
    /\ UNCHANGED <<rFn, rMax, rDelay, retries, rTrace, slept, pipelineVars, llmVars, fnVars>>

\* the caller has the outcome
RetryReturn ==
    /\ rPc = "done"
    /\ rPc' = "idle"
    /\ rFn' = "None"
    /\ rMax' = 0
    /\ rDelay' = 0
    /\ retries' = 0
    /\ rTrace' = << >>
    /\ slept' = 0
    /\ rRet' = "None"
    /\ UNCHANGED <<pipelineVars, llmVars, fnVars>>

NextRetry ==
    \/ \E fn \in RetryFns : \E m \in 0..MaxRetriesArg : RetryCall(fn, m)
    \/ \E e \in Outcomes : Attempt(e)
    \/ RetriesExhausted
    \/ RetryReturn

\* every attempt made so far ended in a deadlock
AllDeadlocks(trace) ==
    \A k \in 1..Len(trace) :
        ~trace[k].ok /\ trace[k].type = TransientError /\ trace[k].deadlockText

\* the first n attempts ended in a deadlock
DeadlocksBefore(trace, n) == AllDeadlocks(SubSeq(trace, 1, n))

\* C8: with the default max_retries, a call whose every attempt raises a
\* deadlock ends after exactly 3 attempts with an error, for both
\* functions; a call whose attempt k succeeds after k-1 deadlocks ends with
\* exactly k <= 3 attempts and returns.
C8_DeadlockRetryBound ==
    (rPc = "done" /\ rMax = DEFAULT_MAX_RETRIES) =>
        /\ Len(rTrace) <= 3
        /\ AllDeadlocks(rTrace) => (Len(rTrace) = 3 /\ rRet = RuntimeError)
        /\ (rTrace[Len(rTrace)].ok /\ DeadlocksBefore(rTrace, Len(rTrace) - 1))
              => (rRet = "ok" /\ retries = Len(rTrace) - 1)

C8_Witness ==
    /\ rPc = "done" /\ rMax = DEFAULT_MAX_RETRIES /\ rFn = "execute_graph_query"
    /\ Len(rTrace) = 3 /\ AllDeadlocks(rTrace) /\ rRet = RuntimeError

\* C9: an attempt that raises anything but a deadlock is the last one: the
\* call ends with that same error, no delay follows it (the time slept is
\* that of the deadlocks before it) and no further attempt is made.
C9_OtherErrorPropagates ==
    /\ [](rPc = "done" /\ Len(rTrace) >= 1 =>
            LET last == rTrace[Len(rTrace)] IN
            (~last.ok /\ ~(last.type = TransientError /\ last.deadlockText))
               => /\ rRet = last.type
                  /\ DeadlocksBefore(rTrace, Len(rTrace) - 1)
                  /\ retries = Len(rTrace) - 1
                  /\ slept = (Len(rTrace) - 1) * DefaultDelay(rFn))
    /\ [][rPc = "done" => (rPc' = "idle" \/ (rTrace' = rTrace /\ slept' = slept))]_vars

C9_Witness ==
    /\ rPc = "done" /\ Len(rTrace) = 2
    /\ rTrace[2].type = TransientError /\ ~rTrace[2].deadlockText
    /\ rRet = TransientError /\ slept = DefaultDelay(rFn)

(***************************************************************************)
(* get_graph_from_llm of llm.py.  A comma-separated string is modelled as  *)
(* the sequence of its fields, the result of split(',').                   *)
(***************************************************************************)
\* most fields of allowedNodes and of allowedRelationship
MaxNodeFields == 2
MaxRelFields == 4

NodeFields == {"", "A", " B "}
RelFields == {"", " ", "A", " B", "R"}

\* str.strip()
Strip(f) ==
    CASE f = " B " -> "B"
      [] f = " B" -> "B"
      [] f = " " -> ""
      [] OTHER -> f

\* the sequences of 1..n fields
FieldSeqs(fields, n) == UNION {[1..k -> fields] : k \in 1..n}

\* the values of allowedRelationship that are two triples of node names
TwoTriples == {t1 \o t2 : t1, t2 \in [1..3 -> {"A", " B"}]}

\* the values of chunks_to_combine: range() rejects a step of 0
CombineSizes == {0, 1}

\* bool(s) of a string given as its fields: only the empty string is false
Truthy(fields) == fields # <<"">>

\* [x.strip() for x in s.split(',')], the empty items kept
StripAll(fields) == [k \in 1..Len(fields) |-> Strip(fields[k])]

NonEmpty(item) == item # ""

\* allowed_nodes = [node.strip() for node in allowedNodes.split(',') if node.strip()]
ParseAllowedNodes(fields) == SelectSeq(StripAll(fields), NonEmpty)

\* the items of allowedRelationship, were the empty ones not dropped
ParseRelationshipItems_KeepEmpty(fields) == StripAll(fields)

\* items = [item.strip() for item in allowedRelationship.split(',') if item.strip()]
ParseRelationshipItems(fields) == SelectSeq(StripAll(fields), NonEmpty)

\* the membership test, were only the source looked up
EndpointsAllowed_SourceOnly(source, target, allowed_nodes) ==
    source \in Range(allowed_nodes)

\* not (source not in allowed_nodes or target not in allowed_nodes)
EndpointsAllowed(source, target, allowed_nodes) ==
    ~(source \notin Range(allowed_nodes) \/ target \notin Range(allowed_nodes))

\* the loop over the triples of items, from offset i (0-based): the triples
\* collected, or the error raised at the first bad one
RECURSIVE ParseTriples(_, _, _, _)
ParseTriples(items, allowed_nodes, i, acc) ==
    IF i >= Len(items)
    THEN [err |-> "None", rels |-> acc]
    ELSE LET triple == PySlice(items, i, i + 3) IN
         IF Len(triple) # 3
         THEN \* source, relation, target = items[i:i + 3] cannot unpack
              [err |-> "ValueError", rels |-> acc]
         ELSE IF ~EndpointsAllowed(triple[1], triple[3], allowed_nodes)
         THEN [err |-> LLMGraphBuilderException, rels |-> acc]
         ELSE ParseTriples(items, allowed_nodes, i + 3, Append(acc, triple))

\* lines 129-144: the relationships handed to the extraction, or the error
ParseAllowedRelationships(fields, allowed_nodes) ==
    IF Truthy(fields)
    THEN LET items == ParseRelationshipItems(fields) IN
         IF Len(items) % 3 # 0
         THEN [err |-> LLMGraphBuilderException, rels |-> << >>]
         ELSE ParseTriples(items, allowed_nodes, 0, << >>)
    ELSE [err |-> "None", rels |-> << >>]

LLMIdle ==
    /\ gPc = "idle"
    /\ gModelOk = FALSE
    /\ gNodesIn = <<"">>
    /\ gRelIn = <<"">>
    /\ gNodes = << >>
    /\ gRels = << >>
    /\ gExtract = 0
    /\ gCause = "None"
    /\ gRet = "None"

\* a call of get_graph_from_llm
InitLLM ==
    /\ gPc = "start"
    /\ gModelOk \in BOOLEAN
    /\ gNodesIn \in FieldSeqs(NodeFields, MaxNodeFields)
    /\ gRelIn \in FieldSeqs(RelFields, MaxRelFields) \cup TwoTriples
    /\ gNodes = << >>
    /\ gRels = << >>
    /\ gExtract = 0
    /\ gCause = "None"
    /\ gRet = "None"

\* the except clause, were the error let through as it is
Reraise_Propagate(cause) ==
    /\ gCause' = cause
    /\ gRet' = cause
    /\ gPc' = "done"

\* except Exception as e: raise LLMGraphBuilderException(...)
Reraise(cause) ==
    /\ gCause' = cause
    /\ gRet' = LLMGraphBuilderException
    /\ gPc' = "done"

\* get_llm, get_combined_chunks and the parsing of the two constraints
ParseConstraints(chunks_to_combine) ==
    /\ gPc = "start"
    /\ IF ~gModelOk
       THEN /\ Reraise(OtherError)
            /\ UNCHANGED <<gNodes, gRels>>
       ELSE IF chunks_to_combine = 0
       THEN /\ Reraise("ValueError")
            /\ UNCHANGED <<gNodes, gRels>>
       ELSE LET allowed_nodes == ParseAllowedNodes(gNodesIn)
                parsed == ParseAllowedRelationships(gRelIn, allowed_nodes)
            IN  /\ gNodes' = allowed_nodes
                /\ IF parsed.err # "None"
                   THEN /\ Reraise(parsed.err)
                        /\ UNCHANGED gRels
                   ELSE /\ gRels' = parsed.rels
                        /\ gPc' = "extract"
                        /\ UNCHANGED <<gCause, gRet>>
    /\ UNCHANGED <<gModelOk, gNodesIn, gRelIn, gExtract, pipelineVars, retryVars, fnVars>>

\* await get_graph_document_list(...): the graph documents, or an error
Extract(ok) ==
    /\ gPc = "extract"
    /\ gExtract' = gExtract + 1
    /\ IF ok
       THEN /\ gRet' = "graph_documents"
            /\ gPc' = "done"
            /\ UNCHANGED gCause
       ELSE Reraise(OtherError)
    /\ UNCHANGED <<gModelOk, gNodesIn, gRelIn, gNodes, gRels, pipelineVars, retryVars, fnVars>>

NextLLM ==
    \/ \E k \in CombineSizes : ParseConstraints(k)
    \/ \E ok \in BOOLEAN : Extract(ok)

\* C10: a call whose allowedRelationship has a number of non-empty fields
\* (fields that are not empty once trimmed) that is not a multiple of 3 ends with LLMGraphBuilderException, and the
\* extraction is never called in it.
C10_TripleCountChecked ==
    LET tokens == {k \in 1..Len(gRelIn) : Strip(gRelIn[k]) # ""} IN
    (gPc # "start" /\ Cardinality(tokens) % 3 # 0) =>
        /\ gPc = "done"
        /\ gRet = LLMGraphBuilderException
        /\ gExtract = 0

C10_Witness ==
    /\ gPc = "done" /\ gModelOk
    /\ Len(ParseRelationshipItems(gRelIn)) = 4
    /\ gRet = LLMGraphBuilderException /\ gExtract = 0

\* the triples of a value of allowedRelationship: its non-empty trimmed
\* fields, three by three in input order
TriplesOf(fields) ==
    LET toks == SelectSeq(StripAll(fields), NonEmpty) IN
    [t \in 1..(Len(toks) \div 3) |-> <<toks[3 * t - 2], toks[3 * t - 1], toks[3 * t]>>]

\* the trimmed, non-empty names of a value of allowedNodes
AllowedSet(fields) == {Strip(fields[k]) : k \in 1..Len(fields)} \ {""}

\* some triple has a source or a target outside the allowed-node set
BadEndpoint(relFields, nodeFields) ==
    \E t \in 1..Len(TriplesOf(relFields)) :
        \/ TriplesOf(relFields)[t][1] \notin AllowedSet(nodeFields)
        \/ TriplesOf(relFields)[t][3] \notin AllowedSet(nodeFields)

\* C11: a call in which some triple of allowedRelationship has a source or a
\* target that is not in the parsed allowed-node set (the empty set included)
\* ends with LLMGraphBuilderException without any extraction call; a call
\* whose fields form whole triples with all endpoints allowed, and whose
\* model and chunk combination succeed, reaches the extraction with the
\* triples in input order.
C11_EndpointsMustBeAllowed ==
    gPc # "start" =>
        /\ BadEndpoint(gRelIn, gNodesIn) =>
               gPc = "done" /\ gRet = LLMGraphBuilderException /\ gExtract = 0
        /\ ( /\ ~BadEndpoint(gRelIn, gNodesIn)
             /\ Len(SelectSeq(StripAll(gRelIn), NonEmpty)) % 3 = 0
             /\ gModelOk /\ gCause # "ValueError" ) =>
               /\ gPc = "extract" \/ gExtract = 1
               /\ gRels = TriplesOf(gRelIn)

C11_Witness ==
    /\ gPc = "done" /\ gModelOk /\ gCause = LLMGraphBuilderException
    /\ gRelIn \in TwoTriples /\ AllowedSet(gNodesIn) # {}
    /\ TriplesOf(gRelIn)[1][1] \in AllowedSet(gNodesIn)
    /\ TriplesOf(gRelIn)[1][3] \in AllowedSet(gNodesIn)
    /\ TriplesOf(gRelIn)[2][3] \notin AllowedSet(gNodesIn)
    /\ gRet = LLMGraphBuilderException /\ gExtract = 0

\* the allowed triples reach the extraction in input order
C11_WitnessPass ==
    /\ gPc = "done" /\ gRet = "graph_documents" /\ Len(gRels) = 2
    /\ gRels[1] # gRels[2]

\* C12: every failure inside get_graph_from_llm (model resolution, chunk
\* combination, constraint parsing, extraction) ends the call with
\* LLMGraphBuilderException and nothing else, and a call that failed returns
\* no graph documents.
C12_SingleDomainError ==
    /\ gCause # "None" => gPc = "done" /\ gRet = LLMGraphBuilderException
    /\ gPc = "done" => gRet \in {"graph_documents", LLMGraphBuilderException}
    /\ gRet = "graph_documents" => gCause = "None"

C12_Witness ==
    /\ gPc = "done" /\ gModelOk /\ gCause = "ValueError"
    /\ gRet = LLMGraphBuilderException /\ gExtract = 0

(***************************************************************************)
(* Functions of their arguments alone.  A call is one step from "call" to  *)
(* "done".                                                                 *)
(***************************************************************************)
FnIdle ==
    /\ fnPc = "idle"
    /\ fnName = "None"
    /\ fnArgs = << >>
    /\ fnRet = << >>

\* the rest of the program while a function is called
NoProgram ==
    InitPipeline /\ fileChunks = 1 /\ ~fileLocal /\ ~staged /\ RetryIdle /\ LLMIdle

\* a call of fn with one of the argument values args
FnCall(fn, args) ==
    /\ fnPc = "call"
    /\ fnName = fn
    /\ fnArgs \in args
    /\ fnRet = << >>

FnFrame == <<pipelineVars, retryVars, llmVars>>

(***************************************************************************)
(* sanitize_additional_instruction of llm.py.  A string is modelled as the *)
(* sequence of the pieces of text it is made of: a piece is one character  *)
(* or one of the words the injection patterns are made of.                 *)
(***************************************************************************)
\* most pieces of an instruction
MaxInstructionLen == 4

Blocked == "[BLOCKED]"
Pieces ==
    {"{", "}", " ", "\t", "a", ".", "import", "os", "subprocess", "getenv(", "Eval(", "exec("}
Whitespace == {" ", "\t"}

\* the strings of at most n pieces
Strings(n) == UNION {[1..k -> Pieces] : k \in 0..n}

\* the piece in lower case (re.IGNORECASE)
Lower(piece) == IF piece = "Eval(" THEN "eval(" ELSE piece

\* injection_patterns, in the order of the list
injection_patterns ==
    << <<"os", ".", "getenv(">>, <<"eval(">>, <<"exec(">>, <<"subprocess", ".">>,
       <<"import", " ", "os">>, <<"import", " ", "subprocess">> >>

\* instruction.replace("{", "[").replace("}", "]")
ReplaceBraces(s) ==
    [k \in 1..Len(s) |-> IF s[k] = "{" THEN "[" ELSE IF s[k] = "}" THEN "]" ELSE s[k]]

\* the pattern matches at the start of s
MatchesAt(pattern, s) ==
    /\ Len(s) >= Len(pattern)
    /\ \A k \in 1..Len(pattern) : Lower(s[k]) = pattern[k]

\* re.sub(pattern, "[BLOCKED]", s, flags=re.IGNORECASE): the leftmost
\* non-overlapping occurrences are replaced
RECURSIVE ReSub(_, _)
ReSub(pattern, s) ==
    IF s = << >> THEN << >>
    ELSE IF MatchesAt(pattern, s)
    THEN <<Blocked>> \o ReSub(pattern, SubSeq(s, Len(pattern) + 1, Len(s)))
    ELSE <<Head(s)>> \o ReSub(pattern, Tail(s))

\* for pattern in injection_patterns: instruction = re.sub(...)
RECURSIVE BlockPatterns(_, _)
BlockPatterns(patterns, s) ==
    IF patterns = << >> THEN s
    ELSE BlockPatterns(Tail(patterns), ReSub(Head(patterns), s))

\* s without its leading whitespace
RECURSIVE LStrip(_)
LStrip(s) ==
    IF s # << >> /\ Head(s) \in Whitespace THEN LStrip(Tail(s)) ELSE s

\* s without its trailing whitespace
RECURSIVE RStrip(_)
RStrip(s) ==
    IF s # << >> /\ s[Len(s)] \in Whitespace THEN RStrip(SubSeq(s, 1, Len(s) - 1)) ELSE s

\* re.sub(r'\s+', ' ', s): every run of whitespace becomes one space
RECURSIVE CollapseSpaces(_)
CollapseSpaces(s) ==
    IF s = << >> THEN << >>
    ELSE IF Head(s) \in Whitespace
    THEN <<" ">> \o CollapseSpaces(LStrip(s))
    ELSE <<Head(s)>> \o CollapseSpaces(Tail(s))

sanitize_additional_instruction(instruction) ==
    LET braces == ReplaceBraces(instruction)
        blocked == BlockPatterns(injection_patterns, braces)
    IN  RStrip(LStrip(CollapseSpaces(blocked)))

InitSanitize ==
    NoProgram /\ FnCall("sanitize_additional_instruction", Strings(MaxInstructionLen))

\* sanitize_additional_instruction(instruction)
Sanitize ==
    /\ fnPc = "call" /\ fnName = "sanitize_additional_instruction"
    /\ fnRet' = sanitize_additional_instruction(fnArgs)
    /\ fnPc' = "done"
    /\ UNCHANGED <<fnName, fnArgs, FnFrame>>

\* the sanitized instruction is sanitized again
SanitizeAgain ==
    /\ fnPc = "done" /\ fnName = "sanitize_additional_instruction"
    /\ fnArgs' = fnRet
    /\ fnRet' = sanitize_additional_instruction(fnRet)
    /\ fnPc' = "again"
    /\ UNCHANGED <<fnName, FnFrame>>

NextSanitize == Sanitize \/ SanitizeAgain

\* some injection pattern occurs in s, whatever the case of the letters
HasBlocked(s) ==
    \E p \in 1..Len(injection_patterns), k \in 1..Len(s) :
        MatchesAt(injection_patterns[p], SubSeq(s, k, Len(s)))

\* C13: the sanitized instruction has no brace, no occurrence of a blocked
\* substring in any case, no run of more than one whitespace character and
\* no whitespace at either end.
C13_SanitizedIsClean ==
    (fnName = "sanitize_additional_instruction" /\ fnPc = "done") =>
        /\ \A k \in 1..Len(fnRet) : fnRet[k] \notin {"{", "}"}
        /\ ~HasBlocked(fnRet)
        /\ \A k \in 1..(Len(fnRet) - 1) :
              ~(fnRet[k] \in Whitespace /\ fnRet[k + 1] \in Whitespace)
        /\ fnRet # << >> => fnRet[1] \notin Whitespace /\ fnRet[Len(fnRet)] \notin Whitespace

\* C14: sanitizing a sanitized instruction changes nothing.
C14_SanitizeIdempotent ==
    [][(fnName = "sanitize_additional_instruction" /\ fnPc = "done" /\ fnPc' = "again")
          => fnRet' = fnRet]_vars

(***************************************************************************)
(* get_combined_chunks of llm.py.  A text is the sequence of its           *)
(* characters.                                                             *)
(***************************************************************************)
\* largest chunks_to_combine
MaxCombine == 3

ChunkIds == {"c1", "c2"}
ChunkTexts == {<<"a">>, <<"b", "c">>}

\* the entries of chunkId_chunkDoc_list
ChunkDocs == [chunk_id : ChunkIds, page_content : ChunkTexts]

\* the arguments of get_combined_chunks
CombineArgs ==
    [chunkId_chunkDoc_list : UNION {[1..n -> ChunkDocs] : n \in 0..MaxChunks},
     chunks_to_combine : 1..MaxCombine]

\* list(range(start, stop, step)) for step > 0
RECURSIVE PyRange(_, _, _)
PyRange(start, stop, step) ==
    IF start >= stop THEN << >>
    ELSE <<start>> \o PyRange(start + step, stop, step)

\* "".join(texts)
RECURSIVE Join(_)
Join(texts) ==
    IF texts = << >> THEN << >> ELSE Head(texts) \o Join(Tail(texts))

\* the slice, were it one chunk longer
CombineGroup_Overlap(list, i, chunks_to_combine) ==
    PySlice(list, i, i + chunks_to_combine + 1)

\* chunkId_chunkDoc_list[i : i + chunks_to_combine]
CombineGroup(list, i, chunks_to_combine) ==
    PySlice(list, i, i + chunks_to_combine)

get_combined_chunks(chunkId_chunkDoc_list, chunks_to_combine) ==
    LET starts == PyRange(0, Len(chunkId_chunkDoc_list), chunks_to_combine)
        group(g) == CombineGroup(chunkId_chunkDoc_list, starts[g], chunks_to_combine)
        combined_chunks_page_content ==
            [g \in 1..Len(starts) |->
                Join([k \in 1..Len(group(g)) |-> group(g)[k].page_content])]
        combined_chunks_ids ==
            [g \in 1..Len(starts) |->
                [k \in 1..Len(group(g)) |-> group(g)[k].chunk_id]]
    IN  [i \in 1..Len(combined_chunks_page_content) |->
            [page_content |-> combined_chunks_page_content[i],
             combined_chunk_ids |-> combined_chunks_ids[i]]]

InitCombine == NoProgram /\ FnCall("get_combined_chunks", CombineArgs)

\* get_combined_chunks(chunkId_chunkDoc_list, chunks_to_combine)
Combine ==
    /\ fnPc = "call" /\ fnName = "get_combined_chunks"
    /\ fnRet' = get_combined_chunks(fnArgs.chunkId_chunkDoc_list, fnArgs.chunks_to_combine)
    /\ fnPc' = "done"
    /\ UNCHANGED <<fnName, fnArgs, FnFrame>>

NextCombine == Combine

\* C15: for n chunks and a window K >= 1 the result has ceil(n/K) combined
\* documents; every group but the last has K chunk ids and the last has
\* 1..K; the groups' ids, one after the other, are the ids of the input in
\* order; the text of each document is its group's texts joined in order.
C15_CombinePartitions ==
    (fnName = "get_combined_chunks" /\ fnPc = "done") =>
        LET list == fnArgs.chunkId_chunkDoc_list
            K == fnArgs.chunks_to_combine
            n == Len(list)
            m == Len(fnRet)
            last(g) == IF g * K < n THEN g * K ELSE n
        IN  /\ m * K >= n /\ (m - 1) * K < n
            /\ \A g \in 1..(m - 1) : Len(fnRet[g].combined_chunk_ids) = K
            /\ m > 0 => Len(fnRet[m].combined_chunk_ids) \in 1..K
            /\ Join([g \in 1..m |-> fnRet[g].combined_chunk_ids])
                  = [k \in 1..n |-> list[k].chunk_id]
            /\ \A g \in 1..m :
                  fnRet[g].page_content
                    = Join([k \in 1..(last(g) - (g - 1) * K) |->
                              list[(g - 1) * K + k].page_content])

C15_Witness ==
    /\ fnName = "get_combined_chunks" /\ fnPc = "done"
    /\ Len(fnArgs.chunkId_chunkDoc_list) = 3 /\ fnArgs.chunks_to_combine = 2
    /\ Len(fnRet) = 2
    /\ fnRet[1].page_content = <<"b", "c", "a">> /\ fnRet[2].page_content = <<"b", "c">>
    /\ fnRet[1].combined_chunk_ids = <<"c1", "c2">> /\ fnRet[2].combined_chunk_ids = <<"c1">>

(***************************************************************************)
(* handle_backticks_nodes_relationship_id_type of shared/common_fn.py, on  *)
(* one graph document of the list.  A name is the sequence of its          *)
(* characters.                                                             *)
(***************************************************************************)
\* most nodes and relationships of a graph document, together
MaxElements == 2

\* the backtick character (U+0060)
Backtick == "BACKTICK"

\* node.id and node.type
NodeIdNames == {<< >>, <<" ">>, <<"x">>}
TypeNames == {<< >>, <<" ">>, <<"p", Backtick>>, <<Backtick>>}

GraphNodes == [id : NodeIdNames, type : TypeNames]
\* the nodes at the ends of the relationships
EndNodes ==
    {[id |-> <<"x">>, type |-> <<"p", Backtick>>], [id |-> << >>, type |-> <<"p", Backtick>>],
     [id |-> <<"x">>, type |-> <<" ">>], [id |-> <<"x">>, type |-> <<Backtick>>]}
GraphRelationships == [type : TypeNames, source : EndNodes, target : EndNodes]

GraphDocuments ==
    UNION {[nodes : [1..n -> GraphNodes], relationships : [1..r -> GraphRelationships]] :
              <<n, r>> \in {q \in (0..MaxElements) \X (0..MaxElements) :
                               q[1] + q[2] <= MaxElements}}

\* bool(s.strip()): some character of s is not whitespace
StripTruthy(s) == \E k \in 1..Len(s) : s[k] \notin Whitespace

NotBacktick(c) == c # Backtick
\* s.replace(Backtick, '')
RemoveBackticks(s) == SelectSeq(s, NotBacktick)

\* the test on a node, were its id not looked at
NodeKept_TypeOnly(node) == StripTruthy(node.type)

\* if node.type.strip() and node.id.strip()
NodeKept(node) == StripTruthy(node.type) /\ StripTruthy(node.id)

\* the five conditions on a relationship
RelationshipKept(relationship) ==
    /\ StripTruthy(relationship.type)
    /\ StripTruthy(relationship.source.id)
    /\ StripTruthy(relationship.source.type)
    /\ StripTruthy(relationship.target.id)
    /\ StripTruthy(relationship.target.type)

CleanNode(node) == [node EXCEPT !.type = RemoveBackticks(@)]

CleanRelationship(relationship) ==
    [relationship EXCEPT !.type = RemoveBackticks(@),
                         !.source.type = RemoveBackticks(@),
                         !.target.type = RemoveBackticks(@)]

handle_backticks_nodes_relationship_id_type(graph_document) ==
    LET keptNodes == SelectSeq(graph_document.nodes, NodeKept)
        keptRels == SelectSeq(graph_document.relationships, RelationshipKept)
    IN  [nodes |-> [k \in 1..Len(keptNodes) |-> CleanNode(keptNodes[k])],
         relationships |-> [k \in 1..Len(keptRels) |-> CleanRelationship(keptRels[k])]]

InitBackticks == NoProgram /\ FnCall("handle_backticks_nodes_relationship_id_type", GraphDocuments)

\* handle_backticks_nodes_relationship_id_type([graph_document])
Backticks ==
    /\ fnPc = "call" /\ fnName = "handle_backticks_nodes_relationship_id_type"
    /\ fnRet' = handle_backticks_nodes_relationship_id_type(fnArgs)
    /\ fnPc' = "done"
    /\ UNCHANGED <<fnName, fnArgs, FnFrame>>

NextBackticks == Backticks

\* the j-th index, in increasing order, of the set of indices S
Nth(S, j) == CHOOSE k \in S : Cardinality({i \in S : i <= k}) = j

\* a name and the same name in the output agree but for the backticks,
\* and the output has none
SameButBackticks(before, after) ==
    /\ after = RemoveBackticks(before)
    /\ \A k \in 1..Len(after) : after[k] # Backtick

\* the output holds exactly the nodes and relationships of the input whose
\* names all satisfy Present, in the original order, ids unchanged and
\* type names without backticks
RetainsExactly(Present(_)) ==
    LET inN == fnArgs.nodes
        inR == fnArgs.relationships
        keepN == {k \in 1..Len(inN) : Present(inN[k].type) /\ Present(inN[k].id)}
        keepR == {k \in 1..Len(inR) :
                     /\ Present(inR[k].type)
                     /\ Present(inR[k].source.type) /\ Present(inR[k].source.id)
                     /\ Present(inR[k].target.type) /\ Present(inR[k].target.id)}
    IN  /\ Len(fnRet.nodes) = Cardinality(keepN)
        /\ \A j \in 1..Cardinality(keepN) :
              /\ fnRet.nodes[j].id = inN[Nth(keepN, j)].id
              /\ SameButBackticks(inN[Nth(keepN, j)].type, fnRet.nodes[j].type)
        /\ Len(fnRet.relationships) = Cardinality(keepR)
        /\ \A j \in 1..Cardinality(keepR) :
              LET before == inR[Nth(keepR, j)]
                  after == fnRet.relationships[j]
              IN  /\ SameButBackticks(before.type, after.type)
                  /\ SameButBackticks(before.source.type, after.source.type)
                  /\ SameButBackticks(before.target.type, after.target.type)
                  /\ after.source.id = before.source.id
                  /\ after.target.id = before.target.id

NotEmptyName(s) == s # << >>

\* C16 (as stated): the nodes kept are exactly those whose type and id are
\* not empty, the relationships kept exactly those whose type and endpoint
\* types and ids are not empty, in the original order, and the type names
\* of what is kept have no backtick left.
C16_RetainsNonEmpty ==
    (fnName = "handle_backticks_nodes_relationship_id_type" /\ fnPc = "done") =>
        RetainsExactly(NotEmptyName)

\* C16 (amended): the same, with "not empty" read as "not empty once the
\* surrounding whitespace is trimmed": a name of whitespace alone counts
\* as empty.
C16_RetainsNonBlank ==
    (fnName = "handle_backticks_nodes_relationship_id_type" /\ fnPc = "done") =>
        RetainsExactly(StripTruthy)

C16_Witness ==
    /\ fnName = "handle_backticks_nodes_relationship_id_type" /\ fnPc = "done"
    /\ Len(fnArgs.nodes) = 2
    /\ fnArgs.nodes[1] = [id |-> <<"x">>, type |-> <<" ">>]
    /\ fnArgs.nodes[2] = [id |-> <<"x">>, type |-> <<"p", Backtick>>]
    /\ fnRet.nodes = <<[id |-> <<"x">>, type |-> <<"p">>]>>

\* C38: whatever the input graph document, every node of the output has a
\* type and an id that are not the empty string, and every relationship of
\* the output has a type, and endpoints with a type and an id, that are not
\* the empty string.
C38_SurvivorsHaveNames ==
    (fnName = "handle_backticks_nodes_relationship_id_type" /\ fnPc = "done") =>
        /\ \A k \in 1..Len(fnRet.nodes) :
              NotEmptyName(fnRet.nodes[k].type) /\ NotEmptyName(fnRet.nodes[k].id)
        /\ \A k \in 1..Len(fnRet.relationships) :
              LET relationship == fnRet.relationships[k]
              IN  /\ NotEmptyName(relationship.type)
                  /\ NotEmptyName(relationship.source.type)
                  /\ NotEmptyName(relationship.source.id)
                  /\ NotEmptyName(relationship.target.type)
                  /\ NotEmptyName(relationship.target.id)

(***************************************************************************)
(* get_labels_and_relationtypes of main.py.  The graph is the set of the   *)
(* distinct (fromLabels, relType, toLabels) rows the query returns; the    *)
(* string "From-REL->To" is modelled as the tuple <<From, REL, To>>.       *)
(***************************************************************************)
\* most distinct patterns of the graph
MaxPatterns == 2

excluded_labels ==
    {"Document", "Chunk", "_Bloom_Perspective_", "__Community__", "__Entity__",
     "Session", "Message"}
excluded_relationships ==
    {"NEXT_CHUNK", "_Bloom_Perspective_", "FIRST_CHUNK", "SIMILAR", "IN_COMMUNITY",
     "PARENT_COMMUNITY", "NEXT", "LAST_MESSAGE"}

\* labels(n) and labels(m) of the nodes at the two ends of the relationships
FromLabelLists == {<<"Chunk">>, <<"__Entity__", "Person">>, <<"Person">>}
ToLabelLists == {<<"Document">>, <<"__Entity__", "Person">>, <<"Company">>}
RelTypes == {"PART_OF", "HAS_ENTITY", "WORKS_AT", "NEXT_CHUNK"}
Patterns == [fromLabels : FromLabelLists, relType : RelTypes, toLabels : ToLabelLists]

\* the graphs of at most n distinct patterns
RECURSIVE Graphs(_)
Graphs(n) ==
    IF n = 0 THEN {{}}
    ELSE Graphs(n - 1) \cup UNION {{g \cup {p} : p \in Patterns} : g \in Graphs(n - 1)}

\* the label taken, were it the first label whatever it is
FirstNonExcluded_FirstLabel(labels) == labels[1]

\* next((lbl for lbl in labels if lbl not in excluded_labels), None)
FirstNonExcluded(labels) ==
    LET ok == {k \in 1..Len(labels) : labels[k] \notin excluded_labels} IN
    IF ok = {} THEN "None"
    ELSE labels[CHOOSE k \in ok : \A j \in ok : k <= j]

\* the body of the loop reaches triples.add for the record
Reported(record) ==
    LET from_label == FirstNonExcluded(record.fromLabels)
        to_label == FirstNonExcluded(record.toLabels)
        rel_type == record.relType
    IN  IF from_label = "None" \/ to_label = "None" THEN FALSE
        ELSE IF rel_type = "PART_OF"
        THEN ~(from_label = "Chunk" /\ to_label = "Document")
        ELSE IF rel_type = "HAS_ENTITY"
        THEN ~(from_label = "Chunk")
        ELSE ~(\/ from_label \in excluded_labels
               \/ to_label \in excluded_labels
               \/ rel_type \in excluded_relationships)

\* f"{from_label}-{rel_type}->{to_label}"
Triplet(record) ==
    <<FirstNonExcluded(record.fromLabels), record.relType, FirstNonExcluded(record.toLabels)>>

\* the set triples after the loop
TripleSet(records) == {Triplet(r) : r \in {q \in records : Reported(q)}}

\* list(triples): the elements of the set, each once, in some order
ListsOf(S) == {l \in [1..Cardinality(S) -> S] : Range(l) = S}

InitLabels == NoProgram /\ FnCall("get_labels_and_relationtypes", Graphs(MaxPatterns))

\* get_labels_and_relationtypes(uri, userName, password, database)
Labels ==
    /\ fnPc = "call" /\ fnName = "get_labels_and_relationtypes"
    /\ \E triplets \in ListsOf(TripleSet(fnArgs)) : fnRet' = [triplets |-> triplets]
    /\ fnPc' = "done"
    /\ UNCHANGED <<fnName, fnArgs, FnFrame>>

NextLabels == Labels

HasNonExcluded(labels) == \E k \in 1..Len(labels) : labels[k] \notin excluded_labels

\* the label that names an endpoint in the string: its first label that is
\* not excluded
NameOf(labels) ==
    labels[CHOOSE k \in 1..Len(labels) :
               /\ labels[k] \notin excluded_labels
               /\ \A j \in 1..(k - 1) : labels[j] \in excluded_labels]

\* the patterns the claim says are reported
ToReport(graph) ==
    {p \in graph :
        /\ HasNonExcluded(p.fromLabels) /\ HasNonExcluded(p.toLabels)
        /\ p.relType \notin excluded_relationships
        /\ ~( /\ "Chunk" \in Range(p.fromLabels) /\ p.relType = "PART_OF"
              /\ "Document" \in Range(p.toLabels) )
        /\ ~("Chunk" \in Range(p.fromLabels) /\ p.relType = "HAS_ENTITY")}

\* C17: the triplets returned are, each once, the strings of exactly the
\* patterns whose two endpoints have a label that is not excluded, whose
\* relationship type is not excluded and that are neither
\* Chunk-PART_OF->Document nor Chunk-HAS_ENTITY->anything; no triplet names
\* an excluded label or an excluded relationship type.
C17_TripletsOfSchema ==
    (fnName = "get_labels_and_relationtypes" /\ fnPc = "done") =>
        LET triplets == fnRet.triplets IN
        /\ Range(triplets)
              = {<<NameOf(p.fromLabels), p.relType, NameOf(p.toLabels)>> : p \in ToReport(fnArgs)}
        /\ Cardinality(Range(triplets)) = Len(triplets)
        /\ \A k \in 1..Len(triplets) :
              /\ triplets[k][1] \notin excluded_labels
              /\ triplets[k][3] \notin excluded_labels
              /\ triplets[k][2] \notin excluded_relationships

C17_Witness ==
    /\ fnName = "get_labels_and_relationtypes" /\ fnPc = "done"
    /\ fnArgs = {[fromLabels |-> <<"Chunk">>, relType |-> "HAS_ENTITY",
                  toLabels |-> <<"__Entity__", "Person">>],
                 [fromLabels |-> <<"__Entity__", "Person">>, relType |-> "WORKS_AT",
                  toLabels |-> <<"Company">>]}
    /\ fnRet.triplets = << <<"Person", "WORKS_AT", "Company">> >>

(***************************************************************************)
(* manually_cancelled_job of main.py on its two lists, with several        *)
(* documents in the database.  The store is the records of the documents,  *)
(* the entities linked to their chunks, and the staged upload artifacts on *)
(* the local disk and in the upload bucket.                                *)
(***************************************************************************)
\* longest list of file names and of source types
MaxCancelled == 2

Files == {"f1", "f2"}
\* the file names of the JSON list, as sent
FileNameArgs == {"f1", " f1 ", "f2"}
SourceTypeArgs == {"local file", "web-url"}
\* os.environ.get('GCS_FILE_CACHE')
GcsFileCacheValues == {"True", "None"}

\* str.strip of a file name
StripFileName(name) == IF name = " f1 " THEN "f1" ELSE name

\* the record of a document that is being processed
ProcessingDoc == [create_source_node EXCEPT !.status = "Processing"]

Stores ==
    [docs : [Files -> {ProcessingDoc}], linked : [Files -> {{}, {1}}],
     disk : SUBSET Files, bucket : SUBSET Files]

CancelArgs ==
    [filenames : UNION {[1..n -> FileNameArgs] : n \in 0..MaxCancelled},
     source_types : UNION {[1..n -> SourceTypeArgs] : n \in 0..MaxCancelled},
     gcs_file_cache : GcsFileCacheValues,
     store : Stores]

\* zip(filename_list, source_types_list), the names stripped
ZipStripped(filenames, source_types) ==
    [k \in 1..Min(Len(filenames), Len(source_types)) |->
        <<StripFileName(filenames[k]), source_types[k]>>]

\* the storage test, were the source type not looked at
UsesBucket_GcsOnly(source_type, gcs_file_cache) == gcs_file_cache = "True"

\* if source_type == 'local file' and gcs_file_cache == 'True'
UsesBucket(source_type, gcs_file_cache) ==
    source_type = "local file" /\ gcs_file_cache = "True"

\* the body of the loop for one pair
CancelOne(store, file_name, source_type, gcs_file_cache) ==
    LET cancelled == update_source_node(store.docs[file_name],
                                        [is_cancelled |-> TRUE, status |-> "Cancelled"])
        counted == update_node_relationship_count(cancelled, store.linked[file_name])
    IN  [docs |-> [store.docs EXCEPT ![file_name] = counted],
         linked |-> store.linked,
         disk |-> IF UsesBucket(source_type, gcs_file_cache)
                  THEN store.disk ELSE store.disk \ {file_name},
         bucket |-> IF UsesBucket(source_type, gcs_file_cache)
                    THEN store.bucket \ {file_name} ELSE store.bucket]

\* for (file_name, source_type) in zip(...)
RECURSIVE CancelLoop(_, _, _)
CancelLoop(store, pairs, gcs_file_cache) ==
    IF pairs = << >> THEN store
    ELSE CancelLoop(CancelOne(store, Head(pairs)[1], Head(pairs)[2], gcs_file_cache),
                    Tail(pairs), gcs_file_cache)

InitCancel == NoProgram /\ FnCall("manually_cancelled_job", CancelArgs)

\* manually_cancelled_job(graph, filenames, source_types, merged_dir, uri)
CancelJobs ==
    /\ fnPc = "call" /\ fnName = "manually_cancelled_job"
    /\ fnRet' = CancelLoop(fnArgs.store,
                           ZipStripped(fnArgs.filenames, fnArgs.source_types),
                           fnArgs.gcs_file_cache)
    /\ fnPc' = "done"
    /\ UNCHANGED <<fnName, fnArgs, FnFrame>>

NextCancel == CancelJobs

\* the pairs of the two lists, by position
PairsOf(filenames, source_types) ==
    {<<StripFileName(filenames[k]), source_types[k]>> :
        k \in 1..Min(Len(filenames), Len(source_types))}

\* C20: after the call, the record of every (file name, source type) pair
\* of the lists has is_cancelled true, the status Cancelled and refreshed
\* counters, and its staged artifact is gone from the bucket when the
\* source type is 'local file' and GCS_FILE_CACHE is 'True', from the local
\* disk otherwise; the documents that are not named are unchanged.
C20_CancelNamedOnly ==
    (fnName = "manually_cancelled_job" /\ fnPc = "done") =>
        LET before == fnArgs.store
            pairs == PairsOf(fnArgs.filenames, fnArgs.source_types)
            named == {q[1] : q \in pairs}
        IN  /\ \A q \in pairs :
                  /\ fnRet.docs[q[1]].is_cancelled
                  /\ fnRet.docs[q[1]].status = "Cancelled"
                  /\ fnRet.docs[q[1]].node_count = Cardinality(before.linked[q[1]])
                  /\ fnRet.docs[q[1]].relationship_count = Cardinality(before.linked[q[1]])
                  /\ IF q[2] = "local file" /\ fnArgs.gcs_file_cache = "True"
                     THEN q[1] \notin fnRet.bucket
                     ELSE q[1] \notin fnRet.disk
            /\ \A f \in Files \ named :
                  /\ fnRet.docs[f] = before.docs[f]
                  /\ (f \in fnRet.disk) = (f \in before.disk)
                  /\ (f \in fnRet.bucket) = (f \in before.bucket)
            /\ fnRet.linked = before.linked

C20_Witness ==
    /\ fnName = "manually_cancelled_job" /\ fnPc = "done"
    /\ fnArgs.filenames = <<" f1 ">> /\ fnArgs.source_types = <<"local file">>
    /\ fnArgs.gcs_file_cache = "True"
    /\ fnArgs.store.bucket = Files /\ fnArgs.store.linked["f1"] = {1}
    /\ fnRet.bucket = {"f2"}
    /\ fnRet.docs["f1"].status = "Cancelled" /\ fnRet.docs["f1"].node_count = 1
    /\ fnRet.docs["f2"].status = "Processing"

(***************************************************************************)
(* upload_file and merge_chunks_local of main.py, for local staging        *)
(* (GCS_FILE_CACHE is not 'True').  The parts of one file arrive one       *)
(* upload_file call at a time, in any order, each part once.  The content  *)
(* of a file is the sequence of its bytes; the name of the file is the     *)
(* sequence of its dot-separated segments.                                 *)
(***************************************************************************)
\* largest total_chunks
MaxParts == 3

OriginalNames == {<<"a", "pdf">>, <<"b", "tar", "gz">>}
PartContents == {<<"x">>, <<"y", "z">>}

\* the file system and the database before the first part arrives
NoUpload ==
    [parts |-> << >>, merged |-> "None", records |-> << >>, result |-> "None", arrived |-> {}]

UploadArgs ==
    UNION {[originalname : OriginalNames, total_chunks : {n}, contents : [1..n -> PartContents]] :
              n \in 1..MaxParts}

\* chunk_file.write(chunk.file.read()) to <originalname>_part_<chunk_number>
StorePart(parts, chunk_number, content) ==
    [i \in DOMAIN parts \cup {chunk_number} |->
        IF i = chunk_number THEN content ELSE parts[i]]

\* os.unlink(chunk_file_path)
Unlink(parts, chunk_number) == [i \in DOMAIN parts \ {chunk_number} |-> parts[i]]

\* the parts taken from the last to the first
PartNumbers_Descending(total_chunks) == [k \in 1..total_chunks |-> total_chunks + 1 - k]

\* range(1, total_chunks + 1)
PartNumbers(total_chunks) == PyRange(1, total_chunks + 1, 1)

\* the loop of merge_chunks_local over the part numbers left: the parts
\* still on the disk, the merged file, and the error raised if any
RECURSIVE MergeLoop(_, _, _)
MergeLoop(numbers, parts, merged) ==
    IF numbers = << >>
    THEN [parts |-> parts, merged |-> merged, err |-> "None"]
    ELSE IF Head(numbers) \notin DOMAIN parts
    THEN \* open(chunk_file_path, "rb") of a file that is not there
         [parts |-> parts, merged |-> merged, err |-> "FileNotFoundError"]
    ELSE MergeLoop(Tail(numbers), Unlink(parts, Head(numbers)),
                   merged \o parts[Head(numbers)])

\* merge_chunks_local: open(merged_file_path, "wb") makes the merged file
\* empty before the loop
merge_chunks_local(total_chunks, parts) == MergeLoop(PartNumbers(total_chunks), parts, << >>)

\* originalname.split('.')[-1]
FileExtension(originalname) == originalname[Len(originalname)]

\* the sourceNode upload_file creates
UploadedSourceNode(originalname, file_size) ==
    [file_name |-> originalname, file_type |-> FileExtension(originalname),
     file_size |-> file_size, file_source |-> "local file",
     chunkNodeCount |-> 0, chunkRelCount |-> 0, entityNodeCount |-> 0,
     entityEntityRelCount |-> 0, communityNodeCount |-> 0, communityRelCount |-> 0]

\* upload_file(graph, model, chunk, chunk_number, total_chunks, originalname, ...)
upload_file(store, chunk, chunk_number, total_chunks, originalname) ==
    LET stored == StorePart(store.parts, chunk_number, chunk)
        arrived == store.arrived \cup {chunk_number}
    IN  IF chunk_number = total_chunks
        THEN LET m == merge_chunks_local(total_chunks, stored) IN
             IF m.err # "None"
             THEN [parts |-> m.parts, merged |-> m.merged, records |-> store.records,
                   result |-> m.err, arrived |-> arrived]
             ELSE [parts |-> m.parts, merged |-> m.merged,
                   records |-> Append(store.records,
                                      UploadedSourceNode(originalname, Len(m.merged))),
                   result |-> [file_size |-> Len(m.merged), file_name |-> originalname,
                               file_extension |-> FileExtension(originalname)],
                   arrived |-> arrived]
        ELSE [parts |-> stored, merged |-> store.merged, records |-> store.records,
              result |-> "saved", arrived |-> arrived]

InitUpload ==
    /\ NoProgram
    /\ fnPc = "call"
    /\ fnName = "upload_file"
    /\ fnArgs \in UploadArgs
    /\ fnRet = NoUpload

\* one call of upload_file, for a part that has not arrived yet
UploadPart(chunk_number) ==
    /\ fnPc = "call" /\ fnName = "upload_file"
    /\ chunk_number \in (1..fnArgs.total_chunks) \ fnRet.arrived
    /\ fnRet' = upload_file(fnRet, fnArgs.contents[chunk_number], chunk_number,
                            fnArgs.total_chunks, fnArgs.originalname)
    /\ fnPc' = IF fnRet'.arrived = 1..fnArgs.total_chunks THEN "done" ELSE "call"
    /\ UNCHANGED <<fnName, fnArgs, FnFrame>>

NextUpload == \E chunk_number \in 1..MaxParts : UploadPart(chunk_number)

\* a step is the call of upload_file for part n
IsUploadOf(n) ==
    /\ fnName = "upload_file"
    /\ n \notin fnRet.arrived
    /\ fnRet'.arrived = fnRet.arrived \cup {n}

\* C21: the call for the part numbered total_chunks, made when parts
\* 1..total_chunks are then all stored, leaves the merged file equal to the
\* parts joined in ascending order, no part file, the size of the merged
\* file returned, and exactly one record, with source 'local file', the
\* extension as file type and zero counters; the call for any other part
\* stores that part and nothing else: no merge and no record.
C21_MergeOnLastPart ==
    [][\A n \in 1..MaxParts : IsUploadOf(n) =>
          LET total_chunks == fnArgs.total_chunks
              name == fnArgs.originalname
          IN  /\ (n = total_chunks /\ DOMAIN fnRet.parts = (1..total_chunks) \ {n}) =>
                    /\ fnRet'.merged = Join(fnArgs.contents)
                    /\ fnRet'.parts = << >>
                    /\ fnRet'.result.file_size = Len(fnRet'.merged)
                    /\ Len(fnRet'.records) = 1
                    /\ fnRet'.records[1].file_source = "local file"
                    /\ fnRet'.records[1].file_type = name[Len(name)]
                    /\ fnRet'.records[1].file_size = Len(fnRet'.merged)
                    /\ \A f \in {"chunkNodeCount", "chunkRelCount", "entityNodeCount",
                                  "entityEntityRelCount", "communityNodeCount",
                                  "communityRelCount"} : fnRet'.records[1][f] = 0
              /\ n # total_chunks =>
                    /\ DOMAIN fnRet'.parts = DOMAIN fnRet.parts \cup {n}
                    /\ fnRet'.parts[n] = fnArgs.contents[n]
                    /\ \A i \in DOMAIN fnRet.parts : fnRet'.parts[i] = fnRet.parts[i]
                    /\ fnRet'.merged = fnRet.merged
                    /\ fnRet'.records = fnRet.records]_vars

C21_Witness ==
    /\ fnName = "upload_file" /\ fnPc = "done"
    /\ fnArgs.total_chunks = 3
    /\ fnArgs.contents = << <<"y", "z">>, <<"x">>, <<"y", "z">> >>
    /\ fnRet.merged = <<"y", "z", "x", "y", "z">>
    /\ fnRet.parts = << >>
    /\ Len(fnRet.records) = 1 /\ fnRet.records[1].file_type = "gz"
    /\ fnRet.result.file_size = 5

\* C27: the merge is attempted, and the record created, only by a call
\* after which all parts 1..total_chunks have arrived, whatever the order
\* of arrival: a call that leaves a part missing writes no merged file,
\* deletes no part and creates no record.
C27_MergeOnlyWhenComplete ==
    [][\A n \in 1..MaxParts :
          (IsUploadOf(n) /\ fnRet'.arrived # 1..fnArgs.total_chunks) =>
              /\ fnRet'.merged = fnRet.merged
              /\ DOMAIN fnRet'.parts = DOMAIN fnRet.parts \cup {n}
              /\ fnRet'.records = fnRet.records]_vars

\* C36: a merge that fails because a part among 1..total_chunks is missing
\* leaves the staging area as it was before the merge: every part stored is
\* still there, there is no merged file that was not there before, and no
\* record is created.
C36_FailedMergeLeavesStaging ==
    [][\A n \in 1..MaxParts :
          (IsUploadOf(n) /\ n = fnArgs.total_chunks
             /\ DOMAIN fnRet.parts \cup {n} # 1..fnArgs.total_chunks) =>
              /\ fnRet'.result = "FileNotFoundError"
              /\ fnRet'.parts = StorePart(fnRet.parts, n, fnArgs.contents[n])
              /\ fnRet'.merged = fnRet.merged
              /\ fnRet'.records = fnRet.records]_vars

(***************************************************************************)
(* create_source_node_graph_url_s3 and create_source_node_graph_url_gcs of *)
(* main.py.  The listing is the sequence of the files the bucket adapter   *)
(* returns; whether create_source_node succeeds for a file is an input.    *)
(* A key is the sequence of its '/'-separated segments.                    *)
(***************************************************************************)
\* most files of a listing
MaxListed == 3

RegisterFns == {"create_source_node_graph_url_s3", "create_source_node_graph_url_gcs"}
FileKeys == {<<"dir", "a.pdf">>, <<"b.pdf">>}
\* a listed file, and whether its create_source_node call returns
ListedFiles == [file_key : FileKeys, created : BOOLEAN]

RegisterArgs == UNION {[1..n -> ListedFiles] : n \in 0..MaxListed}

\* file_name.split('/')[-1] for S3; file_metadata['fileName'] for GCS
ListedName(fn, file_key) ==
    IF fn = "create_source_node_graph_url_s3"
    THEN file_key[Len(file_key)]
    ELSE file_key

\* the except branch, were the file left out of the list
OnCreateFailure_Dropped(acc, file_name) ==
    [acc EXCEPT !.failed_count = @ + 1]

\* except Exception as e: failed_count += 1; file_list.append({... 'Failed'})
OnCreateFailure(acc, file_name) ==
    [acc EXCEPT !.failed_count = @ + 1,
                !.file_list = Append(@, [fileName |-> file_name, status |-> "Failed"])]

\* the try block of the loop body
RegisterOne(acc, file_name, created) ==
    IF created
    THEN [acc EXCEPT !.success_count = @ + 1,
                     !.file_list = Append(@, [fileName |-> file_name, status |-> "Success"])]
    ELSE OnCreateFailure(acc, file_name)

\* for file_info in files_info
RECURSIVE RegisterLoop(_, _, _)
RegisterLoop(fn, files, acc) ==
    IF files = << >> THEN acc
    ELSE RegisterLoop(fn, Tail(files),
                      RegisterOne(acc, ListedName(fn, Head(files).file_key),
                                  Head(files).created))

\* the function: its result, or the error of the S3 function on an empty
\* listing
create_source_node_graph_url(fn, files) ==
    IF fn = "create_source_node_graph_url_s3" /\ Len(files) = 0
    THEN [err |-> LLMGraphBuilderException]
    ELSE RegisterLoop(fn, files,
                      [err |-> "None", file_list |-> << >>, success_count |-> 0,
                       failed_count |-> 0])

InitRegister ==
    /\ NoProgram
    /\ fnPc = "call"
    /\ fnName \in RegisterFns
    /\ fnArgs \in RegisterArgs
    /\ fnRet = << >>

\* create_source_node_graph_url_s3(...) or create_source_node_graph_url_gcs(...)
RegisterListing ==
    /\ fnPc = "call" /\ fnName \in RegisterFns
    /\ fnRet' = create_source_node_graph_url(fnName, fnArgs)
    /\ fnPc' = "done"
    /\ UNCHANGED <<fnName, fnArgs, FnFrame>>

NextRegister == RegisterListing

\* C22: a failure of create_source_node for a file does not end the batch:
\* the returned file_list has one entry per listed file, in listing order,
\* with the status Failed where the creation failed and Success where it
\* succeeded, and success_count + failed_count is the number of files.
C22_FailureDoesNotAbortBatch ==
    (fnName \in RegisterFns /\ fnPc = "done" /\ Len(fnArgs) > 0) =>
        /\ fnRet.err = "None"
        /\ Len(fnRet.file_list) = Len(fnArgs)
        /\ \A k \in 1..Len(fnArgs) :
              /\ fnRet.file_list[k].fileName
                    = IF fnName = "create_source_node_graph_url_s3"
                      THEN fnArgs[k].file_key[Len(fnArgs[k].file_key)]
                      ELSE fnArgs[k].file_key
              /\ fnRet.file_list[k].status
                    = IF fnArgs[k].created THEN "Success" ELSE "Failed"
        /\ fnRet.success_count + fnRet.failed_count = Len(fnArgs)
        /\ fnRet.failed_count = Cardinality({k \in 1..Len(fnArgs) : ~fnArgs[k].created})

C22_Witness ==
    /\ fnName = "create_source_node_graph_url_s3" /\ fnPc = "done"
    /\ Len(fnArgs) = 3
    /\ fnArgs[1].created /\ ~fnArgs[2].created /\ fnArgs[3].created
    /\ fnArgs[1].file_key # fnArgs[3].file_key
    /\ fnRet.file_list[2].status = "Failed" /\ fnRet.file_list[3].status = "Success"
    /\ fnRet.success_count = 2 /\ fnRet.failed_count = 1

(***************************************************************************)
(* create_source_node_graph_web_url, create_source_node_graph_url_youtube  *)
(* and create_source_node_graph_url_wikipedia of main.py: the registration *)
(* of one source.  What the loaders and the database answer is an input.   *)
(***************************************************************************)
SourceFns == {"create_source_node_graph_web_url",
              "create_source_node_graph_url_youtube",
              "create_source_node_graph_url_wikipedia"}

\* valid: check_url_source returns; loaded: what the page loader or the
\* transcript reader returns; video_id: the url holds v=<11 characters>;
\* title: the title of the web page's metadata; known: the stored url of
\* that title is the source url; created: create_source_node returns
SourceArgs ==
    [valid : BOOLEAN, loaded : {"None", "empty", "content"}, video_id : BOOLEAN,
     title : {"KeyError", "", "T"}, known : BOOLEAN, created : BOOLEAN]

NoFiles == [err |-> "None", file_list |-> << >>, success_count |-> 0, failed_count |-> 0]

\* _add_source_node_to_graph: the entry appended to file_list and the
\* number returned
add_source_node_to_graph(file_list, file_name, status, created) ==
    IF created
    THEN [file_list |-> Append(file_list, [fileName |-> file_name, status |-> status]),
          ret |-> 1]
    ELSE [file_list |-> Append(file_list, [fileName |-> file_name, status |-> "Failed"]),
          ret |-> 0]

\* the title of a web source: the page's title, the title and the last
\* segment of the url when the title is stored for another url, the last
\* segment when there is no title
WebTitle(a) ==
    IF a.title \in {"KeyError", ""} THEN <<"segment">>
    ELSE IF a.known THEN <<a.title>>
    ELSE <<a.title, "-", "segment">>

create_source_node_graph_web_url(a) ==
    IF a.loaded \in {"None", "empty"} THEN [err |-> LLMGraphBuilderException]
    ELSE IF ~a.created THEN [err |-> "Exception"]
    ELSE [NoFiles EXCEPT !.file_list = <<[fileName |-> WebTitle(a), status |-> "Success"]>>,
                         !.success_count = 1]

create_source_node_graph_url_youtube(a) ==
    IF ~a.valid THEN [err |-> "ValueError"]
    ELSE IF a.video_id
    THEN IF a.loaded \in {"None", "empty"} THEN [err |-> LLMGraphBuilderException]
         ELSE LET added == add_source_node_to_graph(<< >>, <<"video_id">>, "Success", a.created)
              IN  [NoFiles EXCEPT !.file_list = added.file_list,
                                  !.success_count = @ + added.ret]
    ELSE [NoFiles EXCEPT !.file_list = <<[fileName |-> <<"Unknown">>, status |-> "Failed"]>>,
                         !.failed_count = @ + 1]

create_source_node_graph_url_wikipedia(a) ==
    IF ~a.valid THEN [err |-> "ValueError"]
    ELSE IF a.loaded \in {"None", "empty"} THEN [err |-> LLMGraphBuilderException]
    ELSE LET added == add_source_node_to_graph(<< >>, <<"wiki_query_id">>, "Success", a.created)
         IN  [NoFiles EXCEPT !.file_list = added.file_list,
                             !.success_count = @ + added.ret]

create_source_node_graph(fn, a) ==
    CASE fn = "create_source_node_graph_web_url" -> create_source_node_graph_web_url(a)
      [] fn = "create_source_node_graph_url_youtube" -> create_source_node_graph_url_youtube(a)
      [] fn = "create_source_node_graph_url_wikipedia" -> create_source_node_graph_url_wikipedia(a)

\* a call of any of the five registration operations
InitSources ==
    /\ NoProgram
    /\ fnPc = "call"
    /\ fnRet = << >>
    /\ \/ fnName \in RegisterFns /\ fnArgs \in RegisterArgs
       \/ fnName \in SourceFns /\ fnArgs \in SourceArgs

\* create_source_node_graph_web_url(...), ..._url_youtube(...) or
\* ..._url_wikipedia(...)
RegisterSource ==
    /\ fnPc = "call" /\ fnName \in SourceFns
    /\ fnRet' = create_source_node_graph(fnName, fnArgs)
    /\ fnPc' = "done"
    /\ UNCHANGED <<fnName, fnArgs, FnFrame>>

NextSources == RegisterListing \/ RegisterSource

\* the number of entries of file_list with the status
CountStatus(file_list, status) ==
    Cardinality({k \in 1..Len(file_list) : file_list[k].status = status})

\* C37: a registration operation that returns normally returns a
\* success_count equal to the number of Success entries of file_list and a
\* failed_count equal to the number of Failed entries, so that the two add up
\* to the length of file_list, also when create_source_node raises.
C37_CountsMatchList ==
    (fnName \in RegisterFns \cup SourceFns /\ fnPc = "done" /\ fnRet.err = "None") =>
        /\ fnRet.success_count = CountStatus(fnRet.file_list, "Success")
        /\ fnRet.failed_count = CountStatus(fnRet.file_list, "Failed")
        /\ fnRet.success_count + fnRet.failed_count = Len(fnRet.file_list)

\* the same for the operations that count in their own loop body
C37_ListingCountsMatch ==
    (fnName \in RegisterFns /\ fnPc = "done" /\ fnRet.err = "None") =>
        /\ fnRet.success_count = CountStatus(fnRet.file_list, "Success")
        /\ fnRet.failed_count = CountStatus(fnRet.file_list, "Failed")

(***************************************************************************)
(* get_source_list_from_graph of main.py.  fnRet holds the state of the    *)
(* driver of the connection, the state the driver was in at each query     *)
(* issued on it, and what the function returns.  Whether the connection    *)
(* can be made, and whether the driver answers a query issued after its    *)
(* close(), are inputs.                                                    *)
(***************************************************************************)
\* the file names of the Document nodes of the graph
SourceNames == {"a.pdf", "b.pdf"}

SourceListArgs ==
    [sources : UNION {[1..n -> SourceNames] : n \in 0..MaxListed},
     connects : BOOLEAN, answers_closed : BOOLEAN]

InitSourceList ==
    /\ NoProgram
    /\ fnPc = "call"
    /\ fnName = "get_source_list_from_graph"
    /\ fnArgs \in SourceListArgs
    /\ fnRet = [driver |-> "None", queries |-> << >>, result |-> "None"]

\* graph = Neo4jGraph(url=uri, ...); graph_DB_dataAccess = graphDBdataAccess(graph)
OpenGraph ==
    /\ fnPc = "call" /\ fnName = "get_source_list_from_graph"
    /\ IF fnArgs.connects
       THEN fnRet' = [fnRet EXCEPT !.driver = "open"] /\ fnPc' = "connected"
       ELSE fnRet' = [fnRet EXCEPT !.result = "Exception"] /\ fnPc' = "done"
    /\ UNCHANGED <<fnName, fnArgs, FnFrame>>

\* if not graph._driver._closed: graph._driver.close()
CloseDriver ==
    /\ fnPc = "connected" /\ fnName = "get_source_list_from_graph"
    /\ fnRet' = [fnRet EXCEPT !.driver = IF @ # "closed" THEN "closed" ELSE @]
    /\ fnPc' = "closing"
    /\ UNCHANGED <<fnName, fnArgs, FnFrame>>

\* return graph_DB_dataAccess.get_source_list()
get_source_list ==
    /\ fnPc = "closing" /\ fnName = "get_source_list_from_graph"
    /\ fnRet' = [fnRet EXCEPT
                   !.queries = Append(@, fnRet.driver),
                   !.result = IF fnRet.driver = "open" \/ fnArgs.answers_closed
                              THEN fnArgs.sources
                              ELSE "Exception"]
    /\ fnPc' = "done"
    /\ UNCHANGED <<fnName, fnArgs, FnFrame>>

NextSourceList == OpenGraph \/ CloseDriver \/ get_source_list

\* C39: every query get_source_list_from_graph issues is issued while the
\* driver of the connection is open; none is issued after the driver has
\* been closed.
C39_QueryOnOpenDriver ==
    [][(fnName = "get_source_list_from_graph" /\ fnRet'.queries # fnRet.queries) =>
          fnRet.driver = "open"]_vars

(***************************************************************************)
(* processing_chunks, one action per step: the batch loop of               *)
(* processing_source when every step of a batch returns.  fnRet holds the  *)
(* position inside the batch, the graph documents in hand, what was        *)
(* persisted of them, and the steps taken so far in the run.               *)
(***************************************************************************)
\* the steps, were the graph documents saved before they are cleaned
ChunkSteps_SaveBeforeSanitize == <<"embed", "extract", "save", "sanitize", "link", "count">>

\* the steps of processing_chunks, in the order of its statements
ChunkSteps == <<"embed", "extract", "sanitize", "save", "link", "count">>

\* no batch is under way
NoBatch == [step |-> 1, graph |-> "none", saved |-> {}, log |-> << >>]

InitSteps ==
    /\ InitPipeline /\ RetryIdle /\ LLMIdle
    /\ fnPc = "call"
    /\ fnName = "processing_chunks"
    /\ fnArgs = << >>
    /\ fnRet = NoBatch

\* the next step of processing_chunks on the selected chunks
ChunkStep(p) ==
    /\ pc[p] = "batch"
    /\ fnName = "processing_chunks"
    /\ LET selected == SelectedChunks(pending[p], idx[p])
           sel == Range(selected)
           s == ChunkSteps[fnRet.step]
           last == fnRet.step = Len(ChunkSteps)
           log == IF idx[p] = 0 /\ fnRet.step = 1 THEN << >> ELSE fnRet.log
           d == IF s = "count" THEN update_node_relationship_count(doc, linked) ELSE doc
           i == idx[p] + BatchSize
       IN  /\ embedded' = (IF s = "embed" THEN embedded \cup sel ELSE embedded)
           /\ linked' = (IF s = "link" THEN linked \cup sel ELSE linked)
           /\ doc' = d
           /\ fnRet' = [step |-> IF last THEN 1 ELSE fnRet.step + 1,
                        graph |-> CASE s = "extract" -> "raw"
                                    [] s = "sanitize" -> "clean"
                                    [] last -> "none"
                                    [] OTHER -> fnRet.graph,
                        saved |-> IF s = "save"
                                  THEN fnRet.saved \cup {<<c, fnRet.graph>> : c \in sel}
                                  ELSE fnRet.saved,
                        log |-> Append(log, <<s, idx[p]>>)]
           /\ IF last
              THEN /\ nodes' = [nodes EXCEPT ![p] = d.node_count]
                   /\ rels' = [rels EXCEPT ![p] = d.relationship_count]
                   /\ done' = [done EXCEPT ![p] = Append(@, selected)]
                   /\ idx' = [idx EXCEPT ![p] = i]
                   /\ pc' = [pc EXCEPT ![p] = LoopHead(i, Len(pending[p]))]
              ELSE UNCHANGED <<nodes, rels, done, idx, pc>>
    /\ UNCHANGED <<chunkCount, staged, fileVars, retryVars, llmVars, fnPc, fnName, fnArgs,
                   retry, pending, total, posRes, woeRes, source_node, job, ret>>

\* the steps of an invocation that is under way
RunStep(p) ==
    \/ GetChunksFresh(p)
    \/ GetStatus(p)
    \/ UpdateSourceNode(p)
    \/ RefreshCounts(p)
    \/ CheckCancelled(p)
    \/ ChunkStep(p)
    \/ FinalUpdate(p)
    \/ FinalCount(p)
    \/ Cleanup(p)
    \/ Return(p)

NextSteps ==
    \/ RegisterDocument
    \/ manually_cancelled_job
    \/ Invoke("p1", NoRetry)
    \/ RunStep("p1")

\* the order of the steps of a batch
StepOrder == <<"embed", "extract", "sanitize", "save", "link", "count">>

\* C24: the steps of a run are, batch after batch, chunk embeddings, LLM
\* extraction, sanitization of the graph documents, their persistence, the
\* HAS_ENTITY linking and the counter recomputation: extraction works on
\* embedded chunks, only sanitized graph documents are persisted, only
\* chunks whose graph documents are persisted are linked; and the
\* cancellation check of the next batch, like every step of it, comes after
\* the counter recomputation of the batch before.
C24_StepOrder ==
    LET log == fnRet.log
        sel == Range(SelectedChunks(pending["p1"], idx["p1"]))
    IN  /\ \A k \in 1..Len(log) :
              log[k] = << StepOrder[((k - 1) % 6) + 1], ((k - 1) \div 6) * BatchSize >>
        /\ (pc["p1"] = "batch" /\ fnRet.graph # "none") => sel \subseteq embedded
        /\ \A e \in fnRet.saved : e[2] = "clean"
        /\ \A c \in linked : <<c, "clean">> \in fnRet.saved /\ c \in embedded
        /\ (pc["p1"] \in {"check", "batch"} /\ idx["p1"] > 0) =>
              /\ Len(log) >= (idx["p1"] \div BatchSize) * 6
              /\ log[(idx["p1"] \div BatchSize) * 6] = <<"count", idx["p1"] - BatchSize>>
              /\ pc["p1"] = "check" => doc.node_count = Cardinality(linked)

C24_Witness ==
    /\ pc["p1"] = "batch" /\ idx["p1"] = BatchSize
    /\ fnRet.step = 4 /\ fnRet.graph = "clean"
    /\ Len(fnRet.log) = 9
    /\ doc.node_count = BatchSize

\* the least number of batches of b chunks that hold n chunks
CeilDiv(n, b) == (n + b - 1) \div b

\* C26: as long as every step of a batch returns, an invocation that has
\* entered the batch loop returns its response; it has processed at most
\* ceil(n / BatchSize) batches of its n pending chunks; the status it writes
\* at the end is Completed or Cancelled, and Cancelled exactly when a
\* cancellation check of the run found is_cancelled set; and the status
\* and the counts are written before the response is returned.
C26_Terminates ==
    /\ [](/\ Len(done["p1"]) <= CeilDiv(Len(pending["p1"]), BatchSize)
          /\ pc["p1"] \in {"check", "batch"} => job["p1"] = "Completed"
          /\ pc["p1"] \in {"finalcount", "cleanup"} =>
                /\ doc.status \in {job["p1"], "Cancelled"}
                /\ job["p1"] \in {"Completed", "Cancelled"})
    /\ [][/\ (pc["p1"] = "check" /\ pc'["p1"] # "check")
                => (job'["p1"] = "Cancelled" <=> doc.is_cancelled)
          /\ (pc["p1"] \in {"batch", "final", "finalcount", "cleanup"})
                => job'["p1"] = job["p1"]
          /\ (pc["p1"] = "final" /\ pc'["p1"] # "final")
                => /\ doc'.status = job["p1"]
                   /\ doc'.node_count = nodes["p1"]
                   /\ doc'.relationship_count = rels["p1"]
          /\ (pc["p1"] # "done" /\ pc'["p1"] = "done" /\ ret'["p1"] = "response")
                => (pc["p1"] = "cleanup" /\ doc.node_count = Cardinality(linked))
         ]_vars
    /\ (pc["p1"] = "refresh") ~> (pc["p1"] = "done" /\ ret["p1"] = "response")

C26_Witness ==
    /\ pc["p1"] = "done" /\ ret["p1"] = "response"
    /\ job["p1"] = "Cancelled"
    /\ Len(done["p1"]) = 1 /\ Len(pending["p1"]) > BatchSize
    /\ doc.status = "Cancelled"

(***************************************************************************)
(* The entry points extract_graph_from_*: one per kind of source.  The     *)
(* source adapter is a function of the source alone; what it returns is    *)
(* an argument of the model.                                               *)
(***************************************************************************)
MaxPages == 2

ExtractFns ==
    {"extract_graph_from_file_local_file", "extract_graph_from_file_s3",
     "extract_graph_from_web_page", "extract_graph_from_file_youtube",
     "extract_graph_from_file_Wikipedia", "extract_graph_from_file_gcs"}

\* python values: None, and a list
PyNone == [type |-> "NoneType"]
PyList(items) == [type |-> "list", items |-> items]

\* the pages an adapter may return
AdapterPages == {PyNone} \cup {PyList([k \in 1..n |-> "page"]) : n \in 0..MaxPages}

\* retry_condition: None, the empty string, or one of the retry modes;
\* pages: what the adapter returns if called; keys: the AWS keys are given
ExtractArgs ==
    [retry_condition : RetryModes \cup {NoRetry, ""},
     pages : AdapterPages,
     keys : BOOLEAN]

\* `not retry_condition`
NotSet(retry_condition) == retry_condition \in {NoRetry, ""}

\* the test for no content, were only None taken as no content
NoPages_NoneOnly(pages) == pages = PyNone

\* pages==None or len(pages)==0
NoPages(pages) == pages = PyNone \/ Len(pages.items) = 0

\* processing_source was not called
NotCalled == [called |-> FALSE]

\* the arguments processing_source was called with
Called(pages, local, retry_condition) ==
    [called |-> TRUE, pages |-> pages, is_uploaded_from_local |-> local,
     retry_condition |-> retry_condition]

\* one entry point: the error it raises itself, whether it called the
\* adapter, and the call of processing_source it made
extract_graph_from(fn, args) ==
    LET local == (fn = "extract_graph_from_file_local_file") IN
    IF NotSet(args.retry_condition)
    THEN IF fn = "extract_graph_from_file_s3" /\ ~args.keys
         THEN [err |-> LLMGraphBuilderException, adapter |-> FALSE,
               processing_source |-> NotCalled]
         ELSE IF NoPages(args.pages)
         THEN [err |-> LLMGraphBuilderException, adapter |-> TRUE,
               processing_source |-> NotCalled]
         ELSE [err |-> "None", adapter |-> TRUE,
               processing_source |-> Called(args.pages.items, local, NoRetry)]
    ELSE [err |-> "None", adapter |-> FALSE,
          processing_source |-> Called(<< >>, local, args.retry_condition)]

InitExtract ==
    /\ NoProgram
    /\ fnPc = "call"
    /\ fnName \in ExtractFns
    /\ fnArgs \in ExtractArgs
    /\ fnRet = << >>

\* one call of an entry point, up to its call of processing_source
ExtractCall ==
    /\ fnPc = "call" /\ fnName \in ExtractFns
    /\ fnRet' = extract_graph_from(fnName, fnArgs)
    /\ fnPc' = "done"
    /\ UNCHANGED <<fnName, fnArgs, FnFrame>>

NextExtract == ExtractCall

\* C28: an entry point called with a retry condition calls processing_source
\* with the empty page list and that retry condition, and not the adapter;
\* called without one, when the adapter returns None or no page, it raises
\* LLMGraphBuilderException and does not call processing_source: no record
\* of the document and no chunk is written.
C28_RetrySkipsAdapter ==
    (fnName \in ExtractFns /\ fnPc = "done") =>
        /\ fnArgs.retry_condition \in RetryModes =>
              /\ fnRet.err = "None"
              /\ ~fnRet.adapter
              /\ fnRet.processing_source.called
              /\ fnRet.processing_source.pages = << >>
              /\ fnRet.processing_source.retry_condition = fnArgs.retry_condition
        /\ (fnArgs.retry_condition \notin RetryModes /\ fnRet.adapter
              /\ (fnArgs.pages = PyNone \/ fnArgs.pages = PyList(<< >>))) =>
              /\ fnRet.err = LLMGraphBuilderException
              /\ ~fnRet.processing_source.called
              /\ doc = NoDoc /\ chunkCount = 0

C28_Witness ==
    /\ fnName = "extract_graph_from_file_gcs" /\ fnPc = "done"
    /\ fnArgs.retry_condition = "" /\ fnArgs.pages = PyList(<< >>)
    /\ fnRet.adapter /\ fnRet.err = LLMGraphBuilderException

C28_WitnessRetry ==
    /\ fnName = "extract_graph_from_file_local_file" /\ fnPc = "done"
    /\ fnArgs.retry_condition = START_FROM_LAST_PROCESSED_POSITION
    /\ fnArgs.pages # PyNone
    /\ fnRet.processing_source.called /\ fnRet.processing_source.is_uploaded_from_local

(***************************************************************************)
(* get_chunk_and_graphDocument of shared/common_fn.py, on the graph        *)
(* documents of one batch: one per combined window, as the extraction      *)
(* returns them.                                                           *)
(***************************************************************************)
\* what the source of a graph document carries: the combined_chunk_ids of
\* its window, a metadata without that key, or no metadata at all
SourceKinds == {"ids", "no_key", "no_metadata"}

\* the chunks of the batch, chunks_to_combine, and the kind of source of
\* the graph document of each window
PairArgs ==
    [n : 0..MaxChunks, chunks_to_combine : 1..MaxCombine,
     kinds : [1..MaxChunks -> SourceKinds]]

\* chunkId_chunkDoc_list of a batch of n chunks
BatchChunks(n) == [k \in 1..n |-> [chunk_id |-> k, page_content |-> <<"a">>]]

\* the graph documents extracted from the combined windows of the batch
GraphDocumentsOf(n, chunks_to_combine, kinds) ==
    LET windows == get_combined_chunks(BatchChunks(n), chunks_to_combine) IN
    [g \in 1..Len(windows) |->
        [id |-> g,
         source |-> CASE kinds[g] = "ids" ->
                           [metadata |-> [combined_chunk_ids |-> windows[g].combined_chunk_ids]]
                      [] kinds[g] = "no_key" -> [metadata |-> [chunk_id |-> << >>]]
                      [] OTHER -> [page_content |-> windows[g].page_content]]]

\* hasattr(source, 'metadata') and 'combined_chunk_ids' in source.metadata
HasCombinedChunkIds(graph_document) ==
    /\ "metadata" \in DOMAIN graph_document.source
    /\ "combined_chunk_ids" \in DOMAIN graph_document.source.metadata

\* the pairs of a graph document, were only its first chunk paired
ChunkPairs_FirstOnly(graph_document) ==
    LET ids == graph_document.source.metadata.combined_chunk_ids IN
    [k \in 1..Min(1, Len(ids)) |-> [graph_doc |-> graph_document, chunk_id |-> ids[k]]]

\* the inner loop: one pair for each chunk id of the graph document
ChunkPairs(graph_document) ==
    LET ids == graph_document.source.metadata.combined_chunk_ids IN
    [k \in 1..Len(ids) |-> [graph_doc |-> graph_document, chunk_id |-> ids[k]]]

RECURSIVE get_chunk_and_graphDocument(_)
get_chunk_and_graphDocument(graph_document_list) ==
    IF graph_document_list = << >> THEN << >>
    ELSE LET graph_document == Head(graph_document_list) IN
         (IF HasCombinedChunkIds(graph_document) THEN ChunkPairs(graph_document) ELSE << >>)
            \o get_chunk_and_graphDocument(Tail(graph_document_list))

InitPairs == NoProgram /\ FnCall("get_chunk_and_graphDocument", PairArgs)

\* get_chunk_and_graphDocument(cleaned_graph_documents, chunkId_chunkDoc_list)
Pairs ==
    /\ fnPc = "call" /\ fnName = "get_chunk_and_graphDocument"
    /\ fnRet' = get_chunk_and_graphDocument(
                    GraphDocumentsOf(fnArgs.n, fnArgs.chunks_to_combine, fnArgs.kinds))
    /\ fnPc' = "done"
    /\ UNCHANGED <<fnName, fnArgs, FnFrame>>

NextPairs == Pairs

\* C32: the pairs returned are, in the order of the chunks of the batch,
\* one pair for each chunk whose window's graph document carries
\* combined_chunk_ids, the chunk paired with the graph document of its
\* window: when every graph document carries them, exactly one pair for
\* every chunk of the batch; a graph document that does not carry them is
\* in no pair.
C32_OnePairPerChunk ==
    (fnName = "get_chunk_and_graphDocument" /\ fnPc = "done") =>
        LET K == fnArgs.chunks_to_combine
            docs == GraphDocumentsOf(fnArgs.n, K, fnArgs.kinds)
            window(k) == ((k - 1) \div K) + 1
            Paired(k) == fnArgs.kinds[window(k)] = "ids"
            chunks == SelectSeq([k \in 1..fnArgs.n |-> k], Paired)
        IN  /\ Len(fnRet) = Len(chunks)
            /\ \A j \in 1..Len(chunks) :
                  /\ fnRet[j].chunk_id = chunks[j]
                  /\ fnRet[j].graph_doc = docs[window(chunks[j])]
            /\ (\A g \in 1..Len(docs) : fnArgs.kinds[g] = "ids") =>
                  /\ Len(fnRet) = fnArgs.n
                  /\ \A k \in 1..fnArgs.n : fnRet[k].chunk_id = k
            /\ \A j \in 1..Len(fnRet) : fnArgs.kinds[fnRet[j].graph_doc.id] = "ids"

C32_Witness ==
    /\ fnName = "get_chunk_and_graphDocument" /\ fnPc = "done"
    /\ fnArgs.n = 3 /\ fnArgs.chunks_to_combine = 2
    /\ fnArgs.kinds[1] = "ids" /\ fnArgs.kinds[2] = "ids"
    /\ Len(fnRet) = 3
    /\ fnRet[2].graph_doc.id = 1 /\ fnRet[3].graph_doc.id = 2 /\ fnRet[3].chunk_id = 3

C32_WitnessLacking ==
    /\ fnName = "get_chunk_and_graphDocument" /\ fnPc = "done"
    /\ fnArgs.n = 3 /\ fnArgs.chunks_to_combine = 1
    /\ fnArgs.kinds = [g \in 1..MaxChunks |->
                          IF g = 1 THEN "no_key" ELSE IF g = 2 THEN "ids" ELSE "no_metadata"]
    /\ Len(fnRet) = 1 /\ fnRet[1].chunk_id = 2

(***************************************************************************)
(* processing_source for a document that an earlier invocation left        *)
(* behind: it has a record, New or still Processing, and the chunks the    *)
(* earlier invocation made of the pages it was given.  The pages of the    *)
(* new invocation are split on their own (token_chunk_size, chunk_overlap  *)
(* and the fetched content are arguments of each invocation).              *)
(***************************************************************************)
InitGuard ==
    /\ InitFile /\ InitProcs /\ RetryIdle /\ LLMIdle /\ FnIdle
    /\ \E st \in {"New", "Processing"} :
       \E n \in 0..MaxChunks :
          /\ (st = "Processing") = (n > 0)
          /\ doc = [create_source_node EXCEPT !.status = st, !.total_chunks = n]
          /\ chunkCount = n
    /\ embedded = {}
    /\ linked = {}
    /\ staged = fileLocal

NextGuard == ProcStep("p1")

\* C34: a non-retry invocation that the Processing guard ends writes no
\* chunk: while the stored status is Processing, its steps up to the guard
\* leave the persisted chunks as they were.
C34_GuardLeavesChunks ==
    [][\A p \in Procs :
        (retry[p] = NoRetry /\ pc[p] \in {"chunks", "status"} /\ pc'[p] # pc[p]
           /\ doc.status = "Processing")
            => chunkCount' = chunkCount
      ]_vars

(***************************************************************************)
(* The specifications.                                                     *)
(***************************************************************************)
\* the pipeline: one invocation of processing_source at a time, with the
\* registration and the job control at any time
Init == InitPipeline /\ RetryIdle /\ LLMIdle /\ FnIdle

Next ==
    \/ RegisterDocument
    \/ manually_cancelled_job
    \/ \E rc \in RetryModes : set_status_retry(rc)
    \/ ProcStep("p1")

Spec == Init /\ [][Next]_vars

\* two invocations of processing_source for the document at the same time
NextRace ==
    \/ RegisterDocument
    \/ \E p \in Procs : ProcStep(p)

SpecRace == Init /\ [][NextRace]_vars

\* calls of the retry wrappers
InitRetry == InitPipeline /\ fileChunks = 1 /\ ~fileLocal /\ ~staged /\ RetryIdle /\ LLMIdle /\ FnIdle

SpecRetry == InitRetry /\ [][NextRetry]_vars

\* calls of get_graph_from_llm
InitLLMCall == InitPipeline /\ fileChunks = 1 /\ ~fileLocal /\ ~staged /\ RetryIdle /\ InitLLM /\ FnIdle

SpecLLM == InitLLMCall /\ [][NextLLM]_vars

\* calls of sanitize_additional_instruction
SpecSanitize == InitSanitize /\ [][NextSanitize]_vars

\* calls of get_combined_chunks
SpecCombine == InitCombine /\ [][NextCombine]_vars

\* calls of handle_backticks_nodes_relationship_id_type
SpecBackticks == InitBackticks /\ [][NextBackticks]_vars

\* calls of get_labels_and_relationtypes
SpecLabels == InitLabels /\ [][NextLabels]_vars

\* calls of manually_cancelled_job on lists of documents
SpecCancel == InitCancel /\ [][NextCancel]_vars

\* the upload of the parts of one file
SpecUpload == InitUpload /\ [][NextUpload]_vars

\* calls of the S3 and GCS registration functions
SpecRegister == InitRegister /\ [][NextRegister]_vars

\* calls of the extract_graph_from_* entry points
SpecExtract == InitExtract /\ [][NextExtract]_vars

\* calls of get_chunk_and_graphDocument
SpecPairs == InitPairs /\ [][NextPairs]_vars

\* invocations of processing_source for a document left by an earlier one
SpecGuard == InitGuard /\ [][NextGuard]_vars

SpecSources == InitSources /\ [][NextSources]_vars

SpecSourceList == InitSourceList /\ [][NextSourceList]_vars

\* one invocation of processing_source at a time, step by step through
\* processing_chunks, with the registration and the cancellation at any time
SpecSteps == InitSteps /\ [][NextSteps]_vars

\* the same, where an invocation under way takes its next step: every call
\* it makes returns
SpecStepsFair == InitSteps /\ [][NextSteps]_vars /\ WF_vars(RunStep("p1"))

====
